---- MODULE Spec2Model ----
(***************************************************************************)
(* A model of nlb, a layer-4 load balancer: the backend pool and its       *)
(* selection algorithm (round robin, sticky hashing with failover), the    *)
(* hash of the client address, and the Start/Shutdown lifecycle of the     *)
(* TCP and UDP proxy engines.                                              *)
(*                                                                         *)
(* The specifications of the module:                                       *)
(*   SpecHash      hashIp / getIpFromAddr, one byte of h.Write per step    *)
(*   Spec          the pool: construction, health writes, Next             *)
(*   SpecGrow      a pool in service to which backends are added           *)
(*   SpecEngine    an engine: Start, accept/receive loop, workers, Shutdown*)
(*   SpecEngineFair  the same, the engine's goroutines fairly scheduled    *)
(*   SpecWork      the TCP relay and the UDP datagram handler              *)
(*   SpecRelay     the same, the handlers' own steps fairly scheduled      *)
(*   SpecProbe     the health checkers of a TCP or UDP pool                *)
(*   SpecTcpProbe  the TCP health checkers, fairly scheduled               *)
(***************************************************************************)
EXTENDS Integers, Sequences, FiniteSets, TLC

VARIABLES
    \* ---- hashIp (SpecHash) ----
    hAddr,      \* the address handed to getIpFromAddr
    hIp,        \* the net.IP being hashed (a sequence of bytes; <<>> is nil)
    hPos,       \* bytes of hIp already written to the hash
    hSum,       \* the running 32-bit hash, as <<high 16 bits, low 16 bits>>
    hPc,        \* "write" | "done" | "indexed" | "panic"
    intBits,    \* width of int on the build: 32 or 64
    hN,         \* len(p.backends) the hash is reduced by
    hIdx,       \* idx := hash % len(p.backends)
    \* ---- BaseServerPool (Spec) ----
    phase,          \* "construct" (NewXServerPool is adding backends) | "serve"
    config,         \* Config.Backends still to be added, a sequence of raw URLs
    backends,       \* p.backends: sequence of [url, isHealthy]
    current,        \* p.current
    stickySessions, \* p.stickySessions
    backendsMutex,  \* holder of p.backendsMutex, or NoOne
    pc,             \* per caller of Next: position in Next
    src,            \* per caller: the net.Addr argument
    idx,            \* per caller: local idx (sticky branch / findNextHealthyBackend)
    iter,           \* per caller: loop variable i
    dirty,          \* per caller: a health flag changed while the call ran
    gap,            \* per caller: at some instant of the call no backend was healthy
    log,            \* the calls completed one after the other with no health change
    logCur,         \* p.current before the first call of log
    \* ---- proxy engine (SpecEngine) ----
    proto,          \* "tcp" | "udp"
    started,        \* Start was called
    shutdown,       \* the shutdown channel: "open" | "closed"
    listener,       \* listener / p.conn: "nil" | "open" | "closed"
    wg,             \* the WaitGroup counter
    loopPc,         \* accept/receive loop position
    workers,        \* in-flight relays / datagram handlers (a count)
    spc,            \* per Shutdown caller: position in Shutdown
    sret,           \* per Shutdown caller: returned value
    ctxDone,        \* per Shutdown caller: ctx.Done() is closed
    overlap,        \* two Shutdown calls were in progress at once
    order,          \* Shutdown callers, in the order their calls returned
    fired,          \* Shutdown callers that executed close(shutdown)
    closes,         \* Close calls made on the listener / conn
    handedAfter,    \* a worker was spawned after some Shutdown call had returned
    addr,           \* Config.Addr: the port of the configured listen address
    bound,          \* the port the listener / p.conn is bound to (NoPort: none)
    \* ---- relays and datagram handlers (SpecWork) ----
    wk,             \* per handler: the state of one proxy / handleConnection run
    \* ---- health checkers (SpecProbe) ----
    hcPc,           \* per backend: position of its probing goroutine
    reach,          \* per backend: whether the backend answers probes right now
    cycle,          \* per backend: what the probe cycle in progress has observed
    succeeded       \* some probe of some backend has succeeded

hashVars == <<hAddr, hIp, hPos, hSum, hPc, intBits, hN, hIdx>>
poolVars == <<phase, config, backends, current, stickySessions, backendsMutex,
              pc, src, idx, iter, dirty, gap, log, logCur>>
engVars == <<proto, started, shutdown, listener, wg, loopPc, workers,
            spc, sret, ctxDone, overlap, order, fired, closes, handedAfter>>
bindVars == <<addr, bound>>
workVars == <<wk>>
probeVars == <<hcPc, reach, cycle, succeeded>>
vars == <<hashVars, poolVars, engVars, bindVars, workVars, probeVars>>

(***************************************************************************)
(* 32-bit unsigned arithmetic.  A uint32 is kept as <<hi, lo>>, two 16-bit *)
(* halves, so that no intermediate value leaves the range of the checker's *)
(* integers; every operation is modulo 2^32 as hash/fnv's uint32 is.       *)
(***************************************************************************)
Half == 256 * 256

RECURSIVE BitXor(_, _, _)
\* a XOR b over the low n bits
BitXor(a, b, n) ==
    IF n = 0 THEN 0
    ELSE (((a % 2) + (b % 2)) % 2) + 2 * BitXor(a \div 2, b \div 2, n - 1)

\* hash ^= uint32(c) for a byte c: only the low byte changes
XorByte(h, c) == <<h[1], (h[2] \div 256) * 256 + BitXor(h[2] % 256, c, 8)>>

\* hash *= prime32, prime32 = 16777619 = 256 * 2^16 + 403, modulo 2^32
MulPrime(h) ==
    LET lo403 == h[2] * 403
    IN  <<(h[1] * 403 + h[2] * 256 + (lo403 \div Half)) % Half, lo403 % Half>>

\* offset32 = 2166136261 = 33052 * 2^16 + 40389
Offset32 == <<33052, 40389>>

\* one byte of (*sum32a).Write: xor, then multiply
Fnv1aStepSwapped(h, c) == XorByte(MulPrime(h), c)
Fnv1aStep(h, c) == MulPrime(XorByte(h, c))

RECURSIVE Fnv1a(_, _)
\* h.Write(bytes) on a hash whose state is h
Fnv1a(h, bytes) ==
    IF bytes = <<>> THEN h ELSE Fnv1a(Fnv1aStep(h, Head(bytes)), Tail(bytes))

\* hashIp: fnv.New32a(), Write(ip), Sum32(), int(hash).  Where int is 64 bits
\* wide the conversion keeps the value, 0 .. 2^32 - 1; the pool and the
\* handlers are followed on such a build.
hashIp(ip) == Fnv1a(Offset32, ip)

\* hash % n for the int hash and n > 0, int 64 bits wide
HashMod(h, n) == ((h[1] % n) * (Half % n) + (h[2] % n)) % n

\* int(hash) is negative where int is 32 bits wide and the hash is 2^31 or more
IntNegative(bits, h) == bits = 32 /\ h[1] >= 32768

\* idx := hash % len(p.backends), n = len > 0, on a build whose int has the
\* given width.  Go's % truncates: the remainder of a negative int(hash),
\* which is hash - 2^32, is -((2^32 - hash) % n).
stickyIndex(bits, h, n) ==
    IF IntNegative(bits, h)
    THEN 0 - (((((Half % n) * (Half % n)) % n) + n - HashMod(h, n)) % n)
    ELSE HashMod(h, n)

\* the hash as one integer, where it fits the checker's integers
HashFits(h) == h[1] < 32768
HashInt(h) == h[1] * Half + h[2]

(***************************************************************************)
(* Addresses.  The string form of a net.Addr is a sequence of tokens:      *)
(* numbers and the separators ".", ":", "[", "]".                          *)
(***************************************************************************)
Num(n) == [t |-> "n", v |-> n]
Sep(s) == [t |-> s, v |-> 0]

\* (*TCPAddr).String / (*UDPAddr).String: "a.b.c.d:port", "[g:g:...]:port",
\* and ":port" for an address with no IP
AddrString(a) ==
    CASE a.fam = "v4" ->
            <<Num(a.ip[1]), Sep("."), Num(a.ip[2]), Sep("."), Num(a.ip[3]), Sep("."),
              Num(a.ip[4]), Sep(":"), Num(a.port)>>
      [] a.fam = "v6" ->
            <<Sep("["), Num(a.ip[1]), Sep(":"), Num(a.ip[2]), Sep(":"), Sep(":"),
              Num(a.ip[3]), Sep("]"), Sep(":"), Num(a.port)>>
      [] OTHER -> <<Sep(":"), Num(a.port)>>

RECURSIVE SplitFirst(_)
\* strings.Split(s, ":")[0]: what precedes the first ":"
SplitFirst(s) ==
    IF s = <<>> \/ Head(s) = Sep(":") THEN <<>>
    ELSE <<Head(s)>> \o SplitFirst(Tail(s))

\* net.ParseIP on a text with no ":": four decimal fields 0..255 separated by
\* dots give the 16-byte IPv4-in-IPv6 form; anything else gives nil
ParseIP(s) ==
    IF /\ Len(s) = 7
       /\ \A k \in {1, 3, 5, 7} : s[k].t = "n" /\ s[k].v \in 0..255
       /\ \A k \in {2, 4, 6} : s[k] = Sep(".")
    THEN <<0, 0, 0, 0, 0, 0, 0, 0, 0, 0, 255, 255, s[1].v, s[3].v, s[5].v, s[7].v>>
    ELSE <<>>

\* getIpFromAddr: ip := strings.Split(addr.String(), ":")[0]; net.ParseIP(ip)
getIpFromAddrWithPort(a) ==
    ParseIP(SplitFirst(AddrString(a))) \o <<a.port \div 256, a.port % 256>>
getIpFromAddr(a) == ParseIP(SplitFirst(AddrString(a)))

V4(a, b, c, d, p) == [fam |-> "v4", ip |-> <<a, b, c, d>>, port |-> p]
V6(a, b, c, p) == [fam |-> "v6", ip |-> <<a, b, c>>, port |-> p]
NoIP(p) == [fam |-> "none", ip |-> <<>>, port |-> p]

\* the addresses hashed in SpecHash
HashAddrs ==
    { V4(192, 168, 1, 100, 5678), V4(192, 168, 1, 100, 8080), V4(127, 0, 0, 1, 5678),
      V4(10, 0, 0, 1, 5678), V4(10, 0, 0, 2, 5678), V4(10, 0, 0, 3, 5678),
      V4(172, 16, 0, 5, 5678), V6(8193, 3512, 1, 5678), NoIP(0) }

(***************************************************************************)
(* SpecHash: hashIp(getIpFromAddr(addr)), one byte per step.               *)
(***************************************************************************)
HashInit ==
    /\ hAddr \in HashAddrs
    /\ hIp = getIpFromAddr(hAddr)
    /\ hPos = 0
    /\ hSum = Offset32
    /\ hPc = "write"
    /\ intBits \in {32, 64}
    /\ hN = 0
    /\ hIdx = 0

\* h.Write(ip): the next byte
HashWrite ==
    /\ hPc = "write"
    /\ hPos < Len(hIp)
    /\ hSum' = Fnv1aStep(hSum, hIp[hPos + 1])
    /\ hPos' = hPos + 1
    /\ UNCHANGED <<hAddr, hIp, hPc, intBits, hN, hIdx>>
    /\ UNCHANGED <<poolVars, engVars, bindVars, workVars, probeVars>>

\* h.Sum32() and the return
HashSum ==
    /\ hPc = "write"
    /\ hPos = Len(hIp)
    /\ hPc' = "done"
    /\ UNCHANGED <<hAddr, hIp, hPos, hSum, intBits, hN, hIdx>>
    /\ UNCHANGED <<poolVars, engVars, bindVars, workVars, probeVars>>

\* Next, sticky branch, on a pool of n >= 1 backends:
\*   idx := hash % len(p.backends); p.backends[idx]
\* The index expression panics (index out of range) when idx is negative.
HashIndex(n) ==
    /\ hPc = "done"
    /\ hN = 0
    /\ hN' = n
    /\ hIdx' = stickyIndex(intBits, hSum, n)
    /\ hPc' = IF hIdx' \in 0..(n - 1) THEN "indexed" ELSE "panic"
    /\ UNCHANGED <<hAddr, hIp, hPos, hSum, intBits>>
    /\ UNCHANGED <<poolVars, engVars, bindVars, workVars, probeVars>>

(***************************************************************************)
(* The backend pool: BaseServerPool, and Backend's health flag.            *)
(***************************************************************************)
MaxBackends == 3    \* longest Config.Backends
MaxCalls == 3       \* Next calls recorded between two health changes

Callers == {"c1", "c2"}
NoOne == "none"
NoBackend == -1     \* Next's nil result; i >= 0 stands for the pointer p.backends[i]

\* the addresses Next is called with: one IP from two ports, and an IPv6 client
SrcAddrs == { V4(192, 168, 1, 100, 5678), V4(192, 168, 1, 100, 8080),
              V6(8193, 3512, 1, 5678) }

\* Config.Backends: raw URLs, some of which url.Parse rejects
RawUrls(k) == { [host |-> k, parses |-> TRUE], [host |-> k, parses |-> FALSE] }
Configs ==
    UNION { { cf \in [1..n -> UNION { RawUrls(k) : k \in 1..n }] :
                \A k \in 1..n : cf[k].host = k } : n \in 0..MaxBackends }

N == Len(backends)

\* Backend.Healthy: the flag, read under the backend's own lock
HealthyAlways(k) == TRUE
Healthy(k) == backends[k + 1].isHealthy

Crashed == \E c \in Callers : pc[c] = "panic"
InCall(c) == pc[c] \notin {"idle", "panic"}

PoolInit ==
    /\ phase = "construct"
    /\ config \in Configs
    /\ backends = <<>>
    /\ current = 0
    /\ stickySessions \in BOOLEAN
    /\ backendsMutex = NoOne
    /\ pc = [c \in Callers |-> "idle"]
    /\ src = [c \in Callers |-> NoIP(0)]
    /\ idx = [c \in Callers |-> 0]
    /\ iter = [c \in Callers |-> 0]
    /\ dirty = [c \in Callers |-> FALSE]
    /\ gap = [c \in Callers |-> FALSE]
    /\ log = <<>>
    /\ logCur = 0

callVars == <<pc, src, idx, iter, dirty, gap, log, logCur>>

\* p.backends = append(p.backends, &Backend{URL: parsedURL, isHealthy: false})
prependBackend(bs, u) == <<[url |-> u.host, isHealthy |-> FALSE]>> \o bs
appendBackend(bs, u) == Append(bs, [url |-> u.host, isHealthy |-> FALSE])

\* AddBackend(rawUrl), called by NewTCPServerPool / NewUDPServerPool for each
\* configured URL: lock, url.Parse, append a backend with isHealthy false
AddBackend ==
    /\ config # <<>>
    /\ backendsMutex = NoOne
    /\ backends' = IF Head(config).parses
                   THEN appendBackend(backends, Head(config))
                   ELSE backends
    /\ config' = Tail(config)
    /\ UNCHANGED <<phase, current, stickySessions, backendsMutex, callVars>>
    /\ UNCHANGED <<hashVars, engVars, bindVars, workVars, probeVars>>

\* the constructor returns; health checks and the engine start
Serve ==
    /\ phase = "construct"
    /\ config = <<>>
    /\ phase' = "serve"
    /\ UNCHANGED <<config, backends, current, stickySessions, backendsMutex, callVars>>
    /\ UNCHANGED <<hashVars, engVars, bindVars, workVars, probeVars>>

\* Backend.SetHealthy(v) by the backend's health checker (or a test), at any
\* time: it takes the backend's own lock, never the pool's.  A write of the
\* value the flag already has leaves the state as it is.
SetHealthy(k, v) ==
    /\ phase = "serve"
    /\ ~Crashed
    /\ k \in 0..(N - 1)
    /\ backends[k + 1].isHealthy # v
    /\ backends' = [backends EXCEPT ![k + 1].isHealthy = v]
    /\ dirty' = [c \in Callers |-> dirty[c] \/ InCall(c)]
    /\ gap' = [c \in Callers |-> gap[c] \/ (InCall(c) /\ \A j \in 1..N : ~backends'[j].isHealthy)]
    /\ log' = <<>>
    /\ logCur' = current
    /\ UNCHANGED <<phase, config, current, stickySessions, backendsMutex,
                   pc, src, idx, iter>>
    /\ UNCHANGED <<hashVars, engVars, bindVars, workVars, probeVars>>

\* a caller (proxy, handleConnection, a test) calls Next(conn) and waits for
\* the pool's lock
NextCall(c) ==
    /\ phase = "serve"
    /\ ~Crashed
    /\ pc[c] = "idle"
    /\ Len(log) + Cardinality({d \in Callers : InCall(d)}) < MaxCalls
    /\ pc' = [pc EXCEPT ![c] = "lock"]
    /\ gap' = [gap EXCEPT ![c] = \A j \in 1..N : ~backends[j].isHealthy]
    /\ UNCHANGED <<phase, config, backends, current, stickySessions, backendsMutex,
                   src, idx, iter, dirty, log, logCur>>
    /\ UNCHANGED <<hashVars, engVars, bindVars, workVars, probeVars>>

\* p.backendsMutex.Lock() returns only while nobody holds the lock
LockFreeAlways == TRUE
LockFree == backendsMutex = NoOne

\* if p.stickySessions { ... }
StickyModeNever == FALSE
StickyMode == stickySessions

\* p.backendsMutex.Lock() with conn = a; then the branch on p.stickySessions.
\* The sticky branch computes idx := hashIp(getIpFromAddr(conn)) % len(p.backends),
\* which panics (integer divide by zero) on an empty pool.
NextLock(c, a) ==
    /\ pc[c] = "lock"
    /\ LockFree
    /\ src' = [src EXCEPT ![c] = a]
    /\ IF StickyMode
       THEN IF N = 0
            THEN /\ pc' = [pc EXCEPT ![c] = "panic"]
                 /\ UNCHANGED <<idx, backendsMutex>>
            ELSE /\ pc' = [pc EXCEPT ![c] = "sticky"]
                 /\ idx' = [idx EXCEPT ![c] = HashMod(hashIp(getIpFromAddr(a)), N)]
                 /\ backendsMutex' = c
       ELSE /\ pc' = [pc EXCEPT ![c] = "rr"]
            /\ backendsMutex' = c
            /\ UNCHANGED idx
    /\ UNCHANGED <<phase, config, backends, current, stickySessions, iter, dirty, gap,
                   log, logCur>>
    /\ UNCHANGED <<hashVars, engVars, bindVars, workVars, probeVars>>

\* return r with the cursor left at cur: the deferred Unlock.  A call during
\* which no health flag changed joins the record of calls; any other call
\* starts the record afresh.
Return(c, r, cur) ==
    /\ pc' = [pc EXCEPT ![c] = "idle"]
    /\ backendsMutex' = NoOne
    /\ src' = [src EXCEPT ![c] = NoIP(0)]
    /\ idx' = [idx EXCEPT ![c] = 0]
    /\ iter' = [iter EXCEPT ![c] = 0]
    /\ dirty' = [dirty EXCEPT ![c] = FALSE]
    /\ gap' = [gap EXCEPT ![c] = FALSE]
    /\ log' = IF dirty[c] THEN <<>>
              ELSE Append(log, [src |-> src[c], ret |-> r, cur |-> cur])
    /\ logCur' = IF dirty[c] THEN cur ELSE logCur

\* the index the round-robin loop reads after advancing the cursor
AdvanceNone(cur) == cur
AdvanceTwo(cur) == (cur + 2) % N
AdvanceStuck(cur) == IF cur = N - 1 THEN cur ELSE cur + 1
Advance(cur) == (cur + 1) % N

\* one iteration of the round-robin loop (or its exit):
\*   p.current = (p.current + 1) % len; if p.backends[p.current].Healthy() return it
NextRR(c) ==
    /\ pc[c] = "rr"
    /\ IF iter[c] < N
       THEN /\ current' = Advance(current)
            /\ IF Healthy(current')
               THEN Return(c, current', current')
               ELSE /\ iter' = [iter EXCEPT ![c] = iter[c] + 1]
                    /\ UNCHANGED <<pc, backendsMutex, src, idx, dirty, gap, log, logCur>>
       ELSE /\ Return(c, NoBackend, current)
            /\ UNCHANGED current
    /\ UNCHANGED <<phase, config, backends, stickySessions>>
    /\ UNCHANGED <<hashVars, engVars, bindVars, workVars, probeVars>>

\* sticky branch: if p.backends[idx].Healthy() return it, else probe
NextSticky(c) ==
    /\ pc[c] = "sticky"
    /\ IF Healthy(idx[c])
       THEN Return(c, idx[c], current)
       ELSE /\ pc' = [pc EXCEPT ![c] = "find"]
            /\ UNCHANGED <<backendsMutex, src, idx, iter, dirty, gap, log, logCur>>
    /\ UNCHANGED <<phase, config, backends, current, stickySessions>>
    /\ UNCHANGED <<hashVars, engVars, bindVars, workVars, probeVars>>

\* the index findNextHealthyBackend(start) reads in iteration i
ProbeIndexBackward(start, i) == (start + N - i) % N
ProbeIndex(start, i) == (start + i) % N

\* one iteration of findNextHealthyBackend(idx) (or its exit), and Next's
\* return of what it found
findNextHealthyBackend(c) ==
    /\ pc[c] = "find"
    /\ IF iter[c] < N
       THEN IF Healthy(ProbeIndex(idx[c], iter[c]))
            THEN Return(c, ProbeIndex(idx[c], iter[c]), current)
            ELSE /\ iter' = [iter EXCEPT ![c] = iter[c] + 1]
                 /\ UNCHANGED <<pc, backendsMutex, src, idx, dirty, gap, log, logCur>>
       ELSE Return(c, NoBackend, current)
    /\ UNCHANGED <<phase, config, backends, current, stickySessions>>
    /\ UNCHANGED <<hashVars, engVars, bindVars, workVars, probeVars>>

PoolNext ==
    \/ AddBackend
    \/ Serve
    \/ \E k \in 0..(MaxBackends - 1), v \in BOOLEAN : SetHealthy(k, v)
    \/ \E c \in Callers : NextCall(c)
    \/ \E c \in Callers, a \in SrcAddrs : NextLock(c, a)
    \/ \E c \in Callers : NextRR(c)
    \/ \E c \in Callers : NextSticky(c)
    \/ \E c \in Callers : findNextHealthyBackend(c)


(***************************************************************************)
(* The proxy engines: TCPServerPool and UDPServerPool share the lifecycle  *)
(* Start / accept (receive) loop / Shutdown.                               *)
(***************************************************************************)
MaxWorkers == 2     \* connections / datagrams handed to workers in one run

SCallers == {"s1", "s2"}
Workers == 1..MaxWorkers

InShutdown(s) == spc[s] \in {"check", "close", "closeln", "wait"}
Returned(s) == spc[s] = "ret"
Panicked == \E s \in SCallers : spc[s] = "panic"
NextWorker == CHOOSE w \in Workers : w \notin workers.spawned

\* ports a configuration may name in Config.Addr; NoPort: no socket is bound
Ports == {9090, 5353}
NoPort == 0
\* the port UDPServerPool.Start hands to net.ListenUDP
ListenPort(a) == 9090

EngInit ==
    /\ proto \in {"tcp", "udp"}
    /\ started = FALSE
    /\ shutdown = "open"
    \* NewTCPServerPool listens in the constructor; p.conn is nil until Start
    /\ listener = IF proto = "tcp" THEN "open" ELSE "nil"
    /\ wg = 0
    /\ loopPc = "off"
    /\ workers = [spawned |-> {}, running |-> {}]
    /\ spc = [s \in SCallers |-> "idle"]
    /\ sret = [s \in SCallers |-> "none"]
    /\ ctxDone = [s \in SCallers |-> FALSE]
    /\ overlap = FALSE
    /\ order = <<>>
    /\ fired = {}
    /\ closes = 0
    /\ handedAfter = {}
    /\ addr \in Ports
    \* net.Listen("tcp", config.Addr) in NewTCPServerPool
    /\ bound = IF proto = "tcp" THEN addr ELSE NoPort

shutVars == <<spc, sret, ctxDone, overlap, order, fired>>

\* Start: (UDP: p.conn = net.ListenUDP, which may fail) wg.Add(1); go loop
Start(ok) ==
    /\ ~started
    /\ \A s \in SCallers : spc[s] = "idle"
    /\ started' = TRUE
    /\ IF proto = "udp" /\ ~ok
       THEN UNCHANGED <<listener, wg, loopPc>>
       ELSE /\ listener' = "open"
            /\ wg' = wg + 1
            /\ loopPc' = "select"
    /\ bound' = IF proto = "udp" /\ ok THEN ListenPort(addr) ELSE bound
    /\ UNCHANGED <<proto, shutdown, workers, shutVars, closes, handedAfter, addr>>
    /\ UNCHANGED <<hashVars, poolVars, workVars, probeVars>>

\* the loop's return: the deferred wg.Done()
LoopReturn ==
    /\ loopPc' = "done"
    /\ wg' = wg - 1

\* the loop's  case <-p.shutdown:  is ready
ShutdownRaisedAlways == TRUE
ShutdownRaisedNever == FALSE
ShutdownRaised == shutdown = "closed"

\* top of the loop: select { case <-shutdown: return; default: Accept / ReadFromUDP }
LoopSelect ==
    /\ loopPc = "select"
    /\ ~Panicked
    /\ IF ShutdownRaised THEN LoopReturn
       ELSE /\ loopPc' = "accept"
            /\ UNCHANGED wg
    /\ UNCHANGED <<proto, started, shutdown, listener, workers, shutVars, closes,
                   handedAfter>>
    /\ UNCHANGED <<hashVars, poolVars, bindVars, workVars, probeVars>>

\* Accept / ReadFromUDP returns: a connection or datagram while the listener
\* is open, an error once it is closed (or a transient error at any time)
LoopAccept(ok) ==
    /\ loopPc = "accept"
    /\ ~Panicked
    /\ IF ok
       THEN /\ listener = "open"
            /\ workers.spawned # Workers
            /\ loopPc' = "gotconn"
       ELSE loopPc' = "goterr"
    /\ UNCHANGED <<proto, started, shutdown, listener, wg, workers, shutVars, closes,
                   handedAfter>>
    /\ UNCHANGED <<hashVars, poolVars, bindVars, workVars, probeVars>>

\* err != nil: select { case <-shutdown: return; default: log, continue }
LoopError ==
    /\ loopPc = "goterr"
    /\ ~Panicked
    /\ IF ShutdownRaised THEN LoopReturn
       ELSE /\ loopPc' = "select"
            /\ UNCHANGED wg
    /\ UNCHANGED <<proto, started, shutdown, listener, workers, shutVars, closes,
                   handedAfter>>
    /\ UNCHANGED <<hashVars, poolVars, bindVars, workVars, probeVars>>

\* go proxy(conn, p, p.log) / go p.handleConnection(addr, buf[:n]): the worker
\* is not added to the WaitGroup
LoopSpawn ==
    /\ loopPc = "gotconn"
    /\ ~Panicked
    /\ workers' = [spawned |-> workers.spawned \cup {NextWorker},
                   running |-> workers.running \cup {NextWorker}]
    /\ handedAfter' = handedAfter \cup {sret[s] : s \in {x \in SCallers : Returned(x)}}
    /\ loopPc' = "select"
    /\ UNCHANGED <<proto, started, shutdown, listener, wg, shutVars, closes>>
    /\ UNCHANGED <<hashVars, poolVars, bindVars, workVars, probeVars>>

\* a relay or datagram handler ends
WorkerDone(w) ==
    /\ w \in workers.running
    /\ ~Panicked
    /\ workers' = [workers EXCEPT !.running = @ \ {w}]
    /\ UNCHANGED <<proto, started, shutdown, listener, wg, loopPc, shutVars, closes,
                   handedAfter>>
    /\ UNCHANGED <<hashVars, poolVars, bindVars, workVars, probeVars>>

\* Shutdown(ctx) is called
ShutdownCall(s) ==
    /\ spc[s] = "idle"
    /\ ~Panicked
    /\ spc' = [spc EXCEPT ![s] = "check"]
    /\ overlap' = (overlap \/ \E x \in SCallers : InShutdown(x))
    /\ order' = Append(order, s)
    /\ UNCHANGED <<proto, started, shutdown, listener, wg, loopPc, workers, sret,
                   ctxDone, fired, closes, handedAfter>>
    /\ UNCHANGED <<hashVars, poolVars, bindVars, workVars, probeVars>>

\* case <-p.shutdown: the receive is ready once the channel is closed
AlreadyClosedNever == FALSE
AlreadyClosed == shutdown = "closed"

\* select { case <-p.shutdown: return nil; default: ... }
ShutdownSelect(s) ==
    /\ spc[s] = "check"
    /\ ~Panicked
    /\ IF AlreadyClosed
       THEN /\ spc' = [spc EXCEPT ![s] = "ret"]
            /\ sret' = [sret EXCEPT ![s] = "ok"]
       ELSE /\ spc' = [spc EXCEPT ![s] = "close"]
            /\ UNCHANGED sret
    /\ UNCHANGED <<proto, started, shutdown, listener, wg, loopPc, workers,
                   ctxDone, overlap, order, fired, closes, handedAfter>>
    /\ UNCHANGED <<hashVars, poolVars, bindVars, workVars, probeVars>>

\* default: close(p.shutdown), which panics on a channel already closed
ShutdownClose(s) ==
    /\ spc[s] = "close"
    /\ ~Panicked
    /\ IF shutdown = "closed"
       THEN /\ spc' = [spc EXCEPT ![s] = "panic"]
            /\ UNCHANGED <<shutdown, fired>>
       ELSE /\ spc' = [spc EXCEPT ![s] = "closeln"]
            /\ shutdown' = "closed"
            /\ fired' = fired \cup {s}
    /\ UNCHANGED <<proto, started, listener, wg, loopPc, workers, sret,
                   ctxDone, overlap, order, closes, handedAfter>>
    /\ UNCHANGED <<hashVars, poolVars, bindVars, workVars, probeVars>>

\* TCP: p.listener.Close(), an error is logged.  UDP: if p.conn != nil, its
\* Close(), and an error is returned.  Then go func() { wg.Wait(); close(done) }()
ShutdownCloseListener(s) ==
    /\ spc[s] = "closeln"
    /\ ~Panicked
    /\ IF listener = "nil"
       THEN /\ spc' = [spc EXCEPT ![s] = "wait"]
            /\ UNCHANGED <<listener, closes, sret>>
       ELSE /\ closes' = closes + 1
            /\ listener' = "closed"
            /\ IF proto = "udp" /\ listener = "closed"
               THEN /\ spc' = [spc EXCEPT ![s] = "ret"]
                    /\ sret' = [sret EXCEPT ![s] = "closeerr"]
               ELSE /\ spc' = [spc EXCEPT ![s] = "wait"]
                    /\ UNCHANGED sret
    /\ UNCHANGED <<proto, started, shutdown, wg, loopPc, workers,
                   ctxDone, overlap, order, fired, handedAfter>>
    /\ UNCHANGED <<hashVars, poolVars, bindVars, workVars, probeVars>>

\* what wg.Wait() waits for
WaitOverAlways == TRUE
WaitOver == wg = 0

\* select { case <-done: ...; return nil }
ShutdownDone(s) ==
    /\ spc[s] = "wait"
    /\ ~Panicked
    /\ WaitOver
    /\ spc' = [spc EXCEPT ![s] = "ret"]
    /\ sret' = [sret EXCEPT ![s] = "ok"]
    /\ UNCHANGED <<proto, started, shutdown, listener, wg, loopPc, workers,
                   ctxDone, overlap, order, fired, closes, handedAfter>>
    /\ UNCHANGED <<hashVars, poolVars, bindVars, workVars, probeVars>>

\* select { case <-ctx.Done(): return fmt.Errorf("shutdown timed out ...") }
ShutdownTimeout(s) ==
    /\ spc[s] = "wait"
    /\ ~Panicked
    /\ ctxDone[s]
    /\ spc' = [spc EXCEPT ![s] = "ret"]
    /\ sret' = [sret EXCEPT ![s] = "timeout"]
    /\ UNCHANGED <<proto, started, shutdown, listener, wg, loopPc, workers,
                   ctxDone, overlap, order, fired, closes, handedAfter>>
    /\ UNCHANGED <<hashVars, poolVars, bindVars, workVars, probeVars>>

\* the caller's deadline elapses (or its context is cancelled)
DeadlineElapses(s) ==
    /\ InShutdown(s)
    /\ ~Panicked
    /\ ~ctxDone[s]
    /\ ctxDone' = [ctxDone EXCEPT ![s] = TRUE]
    /\ UNCHANGED <<proto, started, shutdown, listener, wg, loopPc, workers,
                   spc, sret, overlap, order, fired, closes, handedAfter>>
    /\ UNCHANGED <<hashVars, poolVars, bindVars, workVars, probeVars>>

\* the steps of one Shutdown call
ShutdownStep(s) ==
    \/ ShutdownSelect(s)
    \/ ShutdownClose(s)
    \/ ShutdownCloseListener(s)
    \/ ShutdownDone(s)
    \/ ShutdownTimeout(s)

EngNext ==
    \/ \E ok \in BOOLEAN : Start(ok)
    \/ LoopSelect
    \/ \E ok \in BOOLEAN : LoopAccept(ok)
    \/ LoopError
    \/ LoopSpawn
    \/ \E w \in Workers : WorkerDone(w)
    \/ \E s \in SCallers : ShutdownCall(s)
    \/ \E s \in SCallers : ShutdownSelect(s)
    \/ \E s \in SCallers : ShutdownClose(s)
    \/ \E s \in SCallers : ShutdownCloseListener(s)
    \/ \E s \in SCallers : ShutdownDone(s)
    \/ \E s \in SCallers : ShutdownTimeout(s)
    \/ \E s \in SCallers : DeadlineElapses(s)

(***************************************************************************)
(* Workers: the TCP relay (proxy) and the UDP datagram handler             *)
(* (handleConnection / forwardToBackend).  A handler calls Next once; the  *)
(* call runs under the pool's lock and is taken here in one step.          *)
(***************************************************************************)
\* One handler goroutine is followed at a time; when it has returned, the loop
\* hands the next connection or datagram to a new one.  Handlers share nothing
\* but the pool, which they reach through Next, and the listening socket.
Handlers == {"h1"}
\* the clients of the handlers: two IPs
WorkAddrs == { V4(192, 168, 1, 100, 5678), V4(10, 0, 0, 7, 5678) }
None == [len |-> -1]

\* Backend.URL.Host is text: an IP literal with a port, or a host name with a
\* port.  A resolved *net.UDPAddr is the pair (IP, port) the text stands for.
IpText(k) == [kind |-> "ip", id |-> k]
NameText(k) == [kind |-> "name", id |-> k]
\* net.ResolveUDPAddr("udp", host)
ResolveUDPAddr(host) == [id |-> host.id]
\* (*net.UDPAddr).String(): always the literal form
UDPAddrString(a) == IpText(a.id)

\* the backend lists of the pools handlers run on: every URL an IP literal,
\* every URL a host name, or a host name followed by IP literals
HostForms == {"ip", "name", "mixed"}
HostOf(form, k) ==
    IF form = "name" \/ (form = "mixed" /\ k = 1) THEN NameText(k) ELSE IpText(k)
PoolOf(n, form) == [k \in 1..n |-> [url |-> HostOf(form, k), isHealthy |-> FALSE]]

\* datagram payloads, by length; the receive buffers hold BufSize bytes
BufSize == 65507
Payloads == { [len |-> 0], [len |-> 9], [len |-> BufSize] }
\* n, addr, err := conn.ReadFromUDP(buf); buf[:n]
ReadInto(size, p) == [len |-> IF p.len < size THEN p.len ELSE size]

\* Next(conn) as one step under p.backendsMutex: the round-robin scan from
\* cursor cur, i backends already examined
RECURSIVE rrScan(_, _)
rrScan(cur, i) ==
    IF i >= N THEN [ret |-> NoBackend, cur |-> cur]
    ELSE IF Healthy(Advance(cur)) THEN [ret |-> Advance(cur), cur |-> Advance(cur)]
    ELSE rrScan(Advance(cur), i + 1)

\* findNextHealthyBackend(start), i backends already examined
RECURSIVE findFrom(_, _)
findFrom(start, i) ==
    IF i >= N THEN NoBackend
    ELSE IF Healthy(ProbeIndex(start, i)) THEN ProbeIndex(start, i)
    ELSE findFrom(start, i + 1)

\* the sticky branch of Next on a non-empty pool
stickyPick(a) ==
    LET c == HashMod(hashIp(getIpFromAddr(a)), N)
    IN  IF Healthy(c) THEN c ELSE findFrom(c, 0)

NoSender == [id |-> 0]

WorkCrashed == \E h \in DOMAIN wk : wk[h].pc = "panic"

IdleHandler ==
    [pc |-> "idle", src |-> NoIP(0), data |-> None, sel |-> NoBackend,
     sock |-> "none", stray |-> FALSE, got |-> None, from |-> NoSender,
     resp |-> None,
     res |-> "", out |-> None, client |-> "none",
     calls |-> 0, peer |-> NoBackend, up |-> "none",
     buf |-> "none", sent |-> "none", to |-> NoIP(0)]

WorkInit ==
    /\ wk = [h \in Handlers |-> IdleHandler]
    /\ phase = "serve"
    /\ config = <<>>
    /\ \E n \in 0..MaxBackends, form \in HostForms : backends = PoolOf(n, form)
    /\ current = 0
    /\ stickySessions \in BOOLEAN
    /\ backendsMutex = NoOne
    /\ pc = [c \in Callers |-> "idle"]
    /\ src = [c \in Callers |-> NoIP(0)]
    /\ idx = [c \in Callers |-> 0]
    /\ iter = [c \in Callers |-> 0]
    /\ dirty = [c \in Callers |-> FALSE]
    /\ gap = [c \in Callers |-> FALSE]
    /\ log = <<>>
    /\ logCur = 0

\* the pool fields a handler leaves alone
poolRest == <<phase, config, backends, stickySessions, backendsMutex, callVars>>

\* the accept / receive loop hands a connection from a, or a datagram d from
\* a, to a new goroutine:  go proxy(conn, p, p.log)
\*                         go p.handleConnection(addr, buf[:n])
\* The UDP handler's data is a slice of the loop's one buffer (buf, made
\* before the loop): field buf tells whose bytes are under the slice.
Handle(h, a, d) ==
    /\ ~WorkCrashed
    /\ listener = "open"
    /\ wk[h].pc \in {"idle", "done"}
    /\ wk[h].up # "copy"
    /\ wk' = [wk EXCEPT ![h] =
                [IdleHandler EXCEPT !.pc = "next", !.src = a,
                                    !.data = IF proto = "udp" THEN d ELSE None,
                                    !.buf = IF proto = "udp" THEN "own" ELSE "none",
                                    !.client = IF proto = "tcp" THEN "open" ELSE "none"]]
    /\ UNCHANGED <<current, poolRest>>
    /\ UNCHANGED <<hashVars, engVars, bindVars, probeVars>>

\* backend == nil
NoneAvailableNever(r) == FALSE
NoneAvailable(r) == r = NoBackend

\* the handler's return: proxy's deferred conn.Close().  The locals of the
\* run go; what stays is what the run did: res, sel, data, stray, got, from,
\* out, sock.
Finish(h, r, fields) ==
    wk' = [wk EXCEPT ![h] = [fields EXCEPT !.pc = "done", !.res = r,
                              !.src = NoIP(0), !.resp = None,
                              !.client = IF proto = "tcp" THEN "closed" ELSE "none"]]

\* the client address after Next: proxy does not use it again,
\* handleConnection keeps clientAddr for the reply
KeptAddr(a) == IF proto = "udp" THEN a ELSE NoIP(0)

\* backend := pool.Next(conn.RemoteAddr()) / p.Next(clientAddr), and the
\* nil test that follows.  The sticky branch panics on an empty pool.
WorkerNext(h) ==
    /\ ~WorkCrashed
    /\ wk[h].pc = "next"
    /\ backendsMutex = NoOne
    /\ LET w == [wk[h] EXCEPT !.calls = @ + 1]
       IN  IF stickySessions
           THEN /\ UNCHANGED current
                /\ IF N = 0
                   THEN wk' = [wk EXCEPT ![h] = [w EXCEPT !.pc = "panic"]]
                   ELSE LET r == stickyPick(wk[h].src)
                        IN  IF NoneAvailable(r)
                            THEN Finish(h, "none", w)
                            ELSE wk' = [wk EXCEPT ![h] =
                                          [w EXCEPT !.pc = "dial", !.sel = r,
                                                    !.src = KeptAddr(w.src)]]
           ELSE LET r == rrScan(current, 0)
                IN  /\ current' = r.cur
                    /\ IF NoneAvailable(r.ret)
                       THEN Finish(h, "none", w)
                       ELSE wk' = [wk EXCEPT ![h] =
                                     [w EXCEPT !.pc = "dial", !.sel = r.ret,
                                               !.src = KeptAddr(w.src)]]
    /\ UNCHANGED poolRest
    /\ UNCHANGED <<hashVars, engVars, bindVars, probeVars>>

\* the backend a handler dials: backend.URL.Host of Next's result
DialTargetFirst(sel) == 0
DialTarget(sel) == sel

\* the backends after a handler's dial or write to backend sel has ended
\* with outcome: on an error the handler logs and returns, it calls no
\* SetHealthy
FlagsAfterDialDown(sel, outcome) ==
    IF sel = NoBackend \/ outcome = "ok" THEN backends
    ELSE [backends EXCEPT ![sel + 1].isHealthy = FALSE]
FlagsAfterDial(sel, outcome) == backends

\* TCP: backendConn, err := net.DialTimeout("tcp", backend.URL.Host, 2s)
\* UDP: forwardToBackend up to the write: ResolveUDPAddr, DialUDP, conn.Write(data)
\* Reading backend.URL of a nil backend is a nil dereference.
WorkerDial(h, outcome) ==
    /\ ~WorkCrashed
    /\ wk[h].pc = "dial"
    /\ IF wk[h].sel = NoBackend
       THEN wk' = [wk EXCEPT ![h].pc = "panic"]
       ELSE IF proto = "tcp"
       THEN /\ outcome \in {"ok", "dialerr"}
            /\ IF outcome = "ok"
               THEN wk' = [wk EXCEPT ![h].pc = "relay", ![h].sock = "open",
                                     ![h].peer = DialTarget(wk[h].sel),
                                     ![h].up = "copy"]
               ELSE Finish(h, "dialerr", wk[h])
       ELSE /\ outcome = "resolveerr" => backends[wk[h].sel + 1].url.kind = "name"
            /\ CASE outcome = "ok" ->
                      wk' = [wk EXCEPT ![h].pc = "read", ![h].sock = "open",
                                            ![h].peer = DialTarget(wk[h].sel),
                                            ![h].sent = wk[h].buf]
                 [] outcome = "writeerr" ->
                      Finish(h, "writeerr", [wk[h] EXCEPT !.sock = "closed"])
                 [] OTHER -> Finish(h, outcome, wk[h])
    /\ backends' = FlagsAfterDial(wk[h].sel, outcome)
    /\ UNCHANGED <<current, phase, config, stickySessions, backendsMutex, callVars>>
    /\ UNCHANGED <<hashVars, engVars, bindVars, probeVars>>

\* The receive loop goes round: p.conn.ReadFromUDP(buf) puts a later datagram
\* into the same buffer while handler h has not yet written its data.  The
\* loop's write and the handler's read are not ordered: the handler's slice
\* then holds the later datagram's bytes, or bytes of both (the later one is
\* shorter, or the copy and the read overlap).  The later datagram's own
\* handler is not followed.
LaterDatagram(h, o) ==
    /\ ~WorkCrashed
    /\ proto = "udp"
    /\ wk[h].pc \in {"next", "dial"}
    /\ wk[h].buf = "own"
    /\ wk[h].data.len > 0
    /\ wk' = [wk EXCEPT ![h].buf = o]
    /\ UNCHANGED <<current, poolRest>>
    /\ UNCHANGED <<hashVars, engVars, bindVars, probeVars>>

\* a datagram from some other sender reaches the outbound socket.  net.DialUDP
\* connects the socket, so the kernel hands ReadFromUDP only datagrams of the
\* connected peer and discards this one.
StrayDatagram(h) ==
    /\ ~WorkCrashed
    /\ proto = "udp"
    /\ wk[h].pc = "read"
    /\ ~wk[h].stray
    /\ wk' = [wk EXCEPT ![h].stray = TRUE]
    /\ UNCHANGED <<current, poolRest>>
    /\ UNCHANGED <<hashVars, engVars, bindVars, probeVars>>

\* addr.String() != backend.URL.Host
SenderMismatch(sender, host) == UDPAddrString(sender) # host

\* n, addr, err := conn.ReadFromUDP(buf) returns: an error (p = None), or the
\* datagram p the backend sent; then the sender test and forwardToBackend's
\* return (its deferred conn.Close()); then handleConnection's err test
ReadReply(h, p) ==
    /\ ~WorkCrashed
    /\ proto = "udp"
    /\ wk[h].pc = "read"
    /\ LET host == backends[wk[h].sel + 1].url
           seen == [wk[h] EXCEPT !.sock = "closed"]
       IN  IF p = None
           THEN Finish(h, "readerr", seen)
           ELSE LET peer == ResolveUDPAddr(host)
                IN  IF SenderMismatch(peer, host)
                    THEN Finish(h, "crosstalk", [seen EXCEPT !.got = p, !.from = peer])
                    ELSE wk' = [wk EXCEPT ![h] =
                                  [seen EXCEPT !.pc = "send", !.got = p, !.from = peer,
                                               !.resp = ReadInto(BufSize, p)]]
    /\ UNCHANGED <<current, poolRest>>
    /\ UNCHANGED <<hashVars, engVars, bindVars, probeVars>>

\* the address the reply is written to: the handler's own clientAddr
ReplyAddrFixed(h) == V4(192, 168, 1, 100, 5678)
ReplyAddr(h) == wk[h].src

\* the socket the reply is written on is open: p.conn, the engine's bound
\* socket, which Shutdown closes
ReplySocketOpenAlways == TRUE
ReplySocketOpen == listener = "open"

\* p.conn.WriteToUDP(resp, clientAddr); an error is only logged.  On a closed
\* socket the write fails.
WriteClient(h, ok) ==
    /\ ~WorkCrashed
    /\ proto = "udp"
    /\ wk[h].pc = "send"
    /\ ok => ReplySocketOpen
    /\ IF ok
       THEN Finish(h, "ok", [wk[h] EXCEPT !.out = wk[h].resp, !.to = ReplyAddr(h)])
       ELSE Finish(h, "clienterr", wk[h])
    /\ UNCHANGED <<current, poolRest>>
    /\ UNCHANGED <<hashVars, engVars, bindVars, probeVars>>

\* the relay ends: io.Copy(conn, backendConn) returns, having moved bytes to
\* the client or not; the deferred Close of both connections
RelayEnd(h, moved) ==
    /\ ~WorkCrashed
    /\ proto = "tcp"
    /\ wk[h].pc = "relay"
    /\ Finish(h, "ok", [wk[h] EXCEPT !.sock = "closed",
                                    !.out = IF moved THEN [len |-> 1] ELSE None])
    /\ UNCHANGED <<current, poolRest>>
    /\ UNCHANGED <<hashVars, engVars, bindVars, probeVars>>

\* go io.Copy(backendConn, conn) returns: the client has sent EOF or its read
\* failed, a write to the backend failed, or proxy has returned and closed
\* both connections.  The goroutine ends; it closes nothing.
UpCopyEnds(h) ==
    /\ ~WorkCrashed
    /\ proto = "tcp"
    /\ wk[h].up = "copy"
    /\ wk' = [wk EXCEPT ![h].up = "done"]
    /\ UNCHANGED <<current, poolRest>>
    /\ UNCHANGED <<hashVars, engVars, bindVars, probeVars>>

WorkNext ==
    \/ \E k \in 0..(MaxBackends - 1), v \in BOOLEAN : SetHealthy(k, v)
    \/ \E h \in Handlers, a \in WorkAddrs, d \in Payloads : Handle(h, a, d)
    \/ \E h \in Handlers : WorkerNext(h)
    \/ \E h \in Handlers, o \in {"ok", "resolveerr", "dialerr", "writeerr"} : WorkerDial(h, o)
    \/ \E h \in Handlers : StrayDatagram(h)
    \/ \E h \in Handlers, p \in Payloads \cup {None} : ReadReply(h, p)
    \/ \E h \in Handlers, ok \in BOOLEAN : WriteClient(h, ok)
    \/ \E h \in Handlers, moved \in BOOLEAN : RelayEnd(h, moved)
    \/ \E h \in Handlers : UpCopyEnds(h)
    \/ \E h \in Handlers, o \in {"later", "mixed"} : LaterDatagram(h, o)

(***************************************************************************)
(* Health checkers: one probing goroutine per backend, started by          *)
(* TCPServerPool.StartHealthChecks or UDPServerPool.HealthCheck.  They are *)
(* the writers of the health flags.                                        *)
(***************************************************************************)
MaxProbed == 2      \* largest pool whose probes are followed

Probed == 0..(N - 1)

ProbeInit ==
    /\ phase = "serve"
    /\ config = <<>>
    /\ \E n \in 0..MaxProbed, form \in {"ip", "name"} : backends = PoolOf(n, form)
    /\ current = 0
    /\ stickySessions \in BOOLEAN
    /\ backendsMutex = NoOne
    /\ pc = [c \in Callers |-> "idle"]
    /\ src = [c \in Callers |-> NoIP(0)]
    /\ idx = [c \in Callers |-> 0]
    /\ iter = [c \in Callers |-> 0]
    /\ dirty = [c \in Callers |-> FALSE]
    /\ gap = [c \in Callers |-> FALSE]
    /\ log = <<>>
    /\ logCur = 0
    /\ hcPc = [k \in Probed |-> "off"]
    /\ reach \in [Probed -> BOOLEAN]
    /\ cycle = [k \in Probed |-> "none"]
    /\ succeeded = FALSE

\* what a probe step leaves alone
probeRest == <<phase, config, current, stickySessions, backendsMutex, callVars>>

\* a SetHealthy that wrote the flag of every backend
MarkHealthyAll(k, v) == backends' = [j \in 1..N |-> [backends[j] EXCEPT !.isHealthy = v]]
\* a SetHealthy that wrote the flag of the pool's last backend
MarkHealthyLast(k, v) == backends' = [backends EXCEPT ![N].isHealthy = v]
\* backend.SetHealthy(v), called by the backend's own probe
MarkHealthy(k, v) == backends' = [backends EXCEPT ![k + 1].isHealthy = v]

\* StartHealthChecks() / HealthCheck(): for _, b := range p.backends { go ... }
StartHealthChecks ==
    /\ N >= 1
    /\ \A k \in Probed : hcPc[k] = "off"
    /\ hcPc' = [k \in Probed |-> "probe"]
    /\ UNCHANGED <<backends, reach, cycle, succeeded, probeRest>>
    /\ UNCHANGED <<hashVars, engVars, bindVars, workVars>>

\* a backend comes up or goes down
Flap(k) ==
    /\ k \in Probed
    /\ reach' = [reach EXCEPT ![k] = ~reach[k]]
    /\ UNCHANGED <<backends, hcPc, cycle, succeeded, probeRest>>
    /\ UNCHANGED <<hashVars, engVars, bindVars, workVars>>

\* the flag a TCP probe writes for the outcome of its dial
DialVerdictAlways(ok) == TRUE
DialVerdict(ok) == ok

\* TCP: conn, err := net.DialTimeout("tcp", backend.URL.Host, 2s);
\* err != nil: SetHealthy(false); else SetHealthy(true), conn.Close()
ProbeDial(k) ==
    /\ proto = "tcp"
    /\ k \in Probed
    /\ hcPc[k] = "probe"
    /\ MarkHealthy(k, DialVerdict(reach[k]))
    /\ cycle' = [cycle EXCEPT ![k] = IF reach[k] THEN "ok" ELSE "fail"]
    /\ succeeded' = (succeeded \/ reach[k])
    /\ hcPc' = [hcPc EXCEPT ![k] = "wait"]
    /\ UNCHANGED <<reach, probeRest>>
    /\ UNCHANGED <<hashVars, engVars, bindVars, workVars>>

\* The select is entered with a timer just made by time.After, and a blocked
\* select takes the case of the first channel to become ready: the timer's
\* case is taken when the interval (positive: "10s" unless configured) has
\* elapsed with p.shutdown still open.
IntervalElapsedAnyTime == TRUE
IntervalElapsed == shutdown = "open"

\* TCP: select { case <-time.After(p.healthcheckInterval): ... }
ProbeWake(k) ==
    /\ proto = "tcp"
    /\ k \in Probed
    /\ hcPc[k] = "wait"
    /\ IntervalElapsed
    /\ hcPc' = [hcPc EXCEPT ![k] = "probe"]
    /\ cycle' = [cycle EXCEPT ![k] = "none"]
    /\ UNCHANGED <<backends, reach, succeeded, probeRest>>
    /\ UNCHANGED <<hashVars, engVars, bindVars, workVars>>

\* TCP: select { ... case <-p.shutdown: return }
ProbeStop(k) ==
    /\ proto = "tcp"
    /\ k \in Probed
    /\ hcPc[k] = "wait"
    /\ shutdown = "closed"
    /\ hcPc' = [hcPc EXCEPT ![k] = "stopped"]
    /\ UNCHANGED <<backends, reach, cycle, succeeded, probeRest>>
    /\ UNCHANGED <<hashVars, engVars, bindVars, workVars>>

\* UDP: addr, err := net.ResolveUDPAddr("udp", backend.URL.Host), an error of
\* which marks the backend down and sleeps; conn, err := net.DialUDP(...), an
\* error of which marks the backend down and goes on with the nil conn
ProbeResolve(k, outcome) ==
    /\ proto = "udp"
    /\ k \in Probed
    /\ hcPc[k] = "probe"
    /\ outcome = "resolveerr" => backends[k + 1].url.kind = "name"
    /\ CASE outcome = "resolveerr" ->
              /\ MarkHealthy(k, FALSE)
              /\ hcPc' = [hcPc EXCEPT ![k] = "sleep"]
              /\ cycle' = [cycle EXCEPT ![k] = "unresolved"]
         [] outcome = "dialerr" ->
              /\ MarkHealthy(k, FALSE)
              /\ hcPc' = [hcPc EXCEPT ![k] = "write"]
              /\ cycle' = [cycle EXCEPT ![k] = "nilconn"]
         [] outcome = "ok" ->
              /\ UNCHANGED backends
              /\ hcPc' = [hcPc EXCEPT ![k] = "write"]
              /\ cycle' = [cycle EXCEPT ![k] = "conn"]
    /\ UNCHANGED <<reach, succeeded, probeRest>>
    /\ UNCHANGED <<hashVars, engVars, bindVars, workVars>>

\* UDP: conn.Write([]byte("ping")): err != nil: SetHealthy(false);
\* else SetHealthy(true).  A datagram is sent whether or not anyone listens.
ProbeWrite(k, ok) ==
    /\ proto = "udp"
    /\ k \in Probed
    /\ hcPc[k] = "write"
    /\ ok => cycle[k] = "conn"
    /\ MarkHealthy(k, ok)
    /\ hcPc' = [hcPc EXCEPT ![k] = "read"]
    /\ cycle' = [cycle EXCEPT ![k] =
                    IF ok THEN "wrote" ELSE IF cycle[k] = "conn" THEN "writeerr" ELSE "nilconn"]
    /\ UNCHANGED <<reach, succeeded, probeRest>>
    /\ UNCHANGED <<hashVars, engVars, bindVars, workVars>>

\* backendAddr.String() == backend.URL.Host && string(buf[:n]) == "pong"
PongVerified(r, host) == r = "pong" /\ ~SenderMismatch(ResolveUDPAddr(host), host)

\* UDP: n, backendAddr, err := conn.ReadFrom(buf) within 2s: an error
\* (r = "timeout") or a datagram of the backend, "pong" or something else,
\* which the backend sends to the port a ping came from (the socket is
\* connected: the datagrams of other senders are not delivered to it);
\* SetHealthy of the test; conn.Close()
ProbeRead(k, r) ==
    /\ proto = "udp"
    /\ k \in Probed
    /\ hcPc[k] = "read"
    /\ r # "timeout" => reach[k] /\ cycle[k] = "wrote"
    /\ LET good == PongVerified(r, backends[k + 1].url)
       IN  /\ MarkHealthy(k, good)
           /\ cycle' = [cycle EXCEPT ![k] =
                           IF good THEN "pong" ELSE IF r = "pong" THEN "unmatched" ELSE "bad"]
           /\ succeeded' = (succeeded \/ good)
    /\ hcPc' = [hcPc EXCEPT ![k] = "sleep"]
    /\ UNCHANGED <<reach, probeRest>>
    /\ UNCHANGED <<hashVars, engVars, bindVars, workVars>>

\* UDP: time.Sleep(p.healthcheckInterval) returns
ProbeSleepEnd(k) ==
    /\ proto = "udp"
    /\ k \in Probed
    /\ hcPc[k] = "sleep"
    /\ hcPc' = [hcPc EXCEPT ![k] = "probe"]
    /\ cycle' = [cycle EXCEPT ![k] = "none"]
    /\ UNCHANGED <<backends, reach, succeeded, probeRest>>
    /\ UNCHANGED <<hashVars, engVars, bindVars, workVars>>

\* Shutdown() up to close(p.shutdown), by one caller
Stopper == "s1"

TcpProbeNext ==
    \/ StartHealthChecks
    \/ \E k \in Probed : Flap(k)
    \/ \E k \in Probed : ProbeDial(k)
    \/ \E k \in Probed : ProbeWake(k)
    \/ \E k \in Probed : ProbeStop(k)
    \/ ShutdownCall(Stopper)
    \/ ShutdownSelect(Stopper)
    \/ ShutdownClose(Stopper)

ProbeNext ==
    \/ TcpProbeNext
    \/ \E k \in Probed, o \in {"resolveerr", "dialerr", "ok"} : ProbeResolve(k, o)
    \/ \E k \in Probed, ok \in BOOLEAN : ProbeWrite(k, ok)
    \/ \E k \in Probed, r \in {"timeout", "pong", "other"} : ProbeRead(k, r)
    \/ \E k \in Probed : ProbeSleepEnd(k)

(***************************************************************************)
(* The specifications.  Each runs one component and holds the others.      *)
(***************************************************************************)
HashIdle ==
    /\ hAddr = NoIP(0)
    /\ hIp = <<>>
    /\ hPos = 0
    /\ hSum = Offset32
    /\ hPc = "done"
    /\ intBits = 64
    /\ hN = 0
    /\ hIdx = 0

PoolIdle ==
    /\ phase = "serve"
    /\ config = <<>>
    /\ backends = <<>>
    /\ current = 0
    /\ stickySessions = FALSE
    /\ backendsMutex = NoOne
    /\ pc = [c \in Callers |-> "idle"]
    /\ src = [c \in Callers |-> NoIP(0)]
    /\ idx = [c \in Callers |-> 0]
    /\ iter = [c \in Callers |-> 0]
    /\ dirty = [c \in Callers |-> FALSE]
    /\ gap = [c \in Callers |-> FALSE]
    /\ log = <<>>
    /\ logCur = 0

EngIdle ==
    /\ proto = "tcp"
    /\ started = FALSE
    /\ shutdown = "open"
    /\ listener = "open"
    /\ wg = 0
    /\ loopPc = "off"
    /\ workers = [spawned |-> {}, running |-> {}]
    /\ spc = [s \in SCallers |-> "idle"]
    /\ sret = [s \in SCallers |-> "none"]
    /\ ctxDone = [s \in SCallers |-> FALSE]
    /\ overlap = FALSE
    /\ order = <<>>
    /\ fired = {}
    /\ closes = 0
    /\ handedAfter = {}
    /\ addr = 9090
    /\ bound = 9090

WorkIdle == wk = <<>>

ProbeIdle ==
    /\ hcPc = <<>>
    /\ reach = <<>>
    /\ cycle = <<>>
    /\ succeeded = FALSE

HashNext == HashWrite \/ HashSum \/ \E n \in 1..MaxBackends : HashIndex(n)

Init == PoolInit /\ HashIdle /\ EngIdle /\ WorkIdle /\ ProbeIdle
Next == PoolNext
Spec == Init /\ [][Next]_vars

\* A pool in service, flags and cursor anywhere, on which AddBackend is called
\* for the URLs of config while one caller makes Next calls.
GrowInit ==
    /\ phase = "serve"
    /\ \E n \in 0..(MaxBackends - 1) :
          /\ \E f \in [1..n -> BOOLEAN] :
                backends = [k \in 1..n |-> [url |-> k, isHealthy |-> f[k]]]
          /\ current \in 0..(IF n = 0 THEN 0 ELSE n - 1)
          /\ \E m \in 1..(MaxBackends - n) :
                config \in { cf \in [1..m -> UNION { RawUrls(n + j) : j \in 1..m }] :
                               \A j \in 1..m : cf[j].host = n + j }
    /\ stickySessions \in BOOLEAN
    /\ backendsMutex = NoOne
    /\ pc = [c \in Callers |-> "idle"]
    /\ src = [c \in Callers |-> NoIP(0)]
    /\ idx = [c \in Callers |-> 0]
    /\ iter = [c \in Callers |-> 0]
    /\ dirty = [c \in Callers |-> FALSE]
    /\ gap = [c \in Callers |-> FALSE]
    /\ log = <<>>
    /\ logCur = current

Grower == "c1"

GrowNext ==
    \/ AddBackend
    \/ \E k \in 0..(MaxBackends - 1), v \in BOOLEAN : SetHealthy(k, v)
    \/ NextCall(Grower)
    \/ \E a \in SrcAddrs : NextLock(Grower, a)
    \/ NextRR(Grower)
    \/ NextSticky(Grower)
    \/ findNextHealthyBackend(Grower)

InitGrow == GrowInit /\ HashIdle /\ EngIdle /\ WorkIdle /\ ProbeIdle
SpecGrow == InitGrow /\ [][GrowNext]_vars

InitHash == HashInit /\ PoolIdle /\ EngIdle /\ WorkIdle /\ ProbeIdle
SpecHash == InitHash /\ [][HashNext]_vars

\* an engine that is serving: started, listening, its loop running
EngServing ==
    /\ proto \in {"tcp", "udp"}
    /\ started = TRUE
    /\ shutdown = "open"
    /\ listener = "open"
    /\ wg = 1
    /\ loopPc = "select"
    /\ workers = [spawned |-> {}, running |-> {}]
    /\ spc = [s \in SCallers |-> "idle"]
    /\ sret = [s \in SCallers |-> "none"]
    /\ ctxDone = [s \in SCallers |-> FALSE]
    /\ overlap = FALSE
    /\ order = <<>>
    /\ fired = {}
    /\ closes = 0
    /\ handedAfter = {}
    /\ addr = 9090
    /\ bound = 9090

InitWork == WorkInit /\ EngServing /\ HashIdle /\ ProbeIdle
SpecWork == InitWork /\ [][WorkNext]_vars

\* the handlers, with the steps scheduled that are the handler's own: the end
\* of the client-to-backend copy once proxy has closed the connections, the
\* dial (net.DialTimeout returns within 2s, DialUDP and conn.Write do not
\* wait for the backend) and the reply to the client.  When the client or the
\* backend sends, closes or fails is up to them: nothing bounds a read.
UpCopyClosed(h) == UpCopyEnds(h) /\ wk[h].pc = "done"
SpecRelay ==
    /\ InitWork
    /\ [][WorkNext]_vars
    /\ \A h \in Handlers :
          /\ WF_vars(UpCopyClosed(h))
          /\ WF_vars(\E o \in {"ok", "resolveerr", "dialerr", "writeerr"} : WorkerDial(h, o))
          /\ WF_vars(\E ok \in BOOLEAN : WriteClient(h, ok))

\* the handlers of an engine on which Shutdown is called
DrainNext ==
    \/ WorkNext
    \/ ShutdownCall(Stopper)
    \/ ShutdownSelect(Stopper)
    \/ ShutdownClose(Stopper)
    \/ ShutdownCloseListener(Stopper)
SpecDrain == InitWork /\ [][DrainNext]_vars

InitProbe == ProbeInit /\ EngServing /\ HashIdle /\ WorkIdle
SpecProbe == InitProbe /\ [][ProbeNext]_vars

\* the TCP probes alone, each of them scheduled again and again
InitTcpProbe == InitProbe /\ proto = "tcp"
SpecTcpProbe ==
    /\ InitTcpProbe
    /\ [][TcpProbeNext]_vars
    /\ \A k \in 0..(MaxProbed - 1) :
          WF_vars(ProbeDial(k)) /\ WF_vars(ProbeWake(k)) /\ WF_vars(ProbeStop(k))

\* a TCP pool in service whose health checks are started while a caller
\* makes Next calls
ReadersNext ==
    \/ StartHealthChecks
    \/ \E k \in Probed : ProbeDial(k)
    \/ NextCall(Grower)
    \/ \E a \in SrcAddrs : NextLock(Grower, a)
    \/ NextRR(Grower)
    \/ NextSticky(Grower)
    \/ findNextHealthyBackend(Grower)
SpecReaders == InitTcpProbe /\ [][ReadersNext]_vars

\* a TCP pool in service whose health checks are started, and to which
\* AddBackend then adds the URLs of config.  The probes are those started:
\* "for _, b := range p.backends" has read the sequence once.
HealthChecksStarted == hcPc # <<>> /\ \A k \in DOMAIN hcPc : hcPc[k] # "off"
LateInit ==
    /\ GrowInit
    /\ hcPc = [k \in Probed |-> "off"]
    /\ reach \in [Probed -> BOOLEAN]
    /\ cycle = [k \in Probed |-> "none"]
    /\ succeeded = FALSE
LateAdd == HealthChecksStarted /\ AddBackend
LateNext ==
    \/ StartHealthChecks
    \/ LateAdd
    \/ \E k \in DOMAIN hcPc : Flap(k)
    \/ \E k \in DOMAIN hcPc : ProbeDial(k)
    \/ \E k \in DOMAIN hcPc : ProbeWake(k)
InitLate == LateInit /\ EngServing /\ proto = "tcp" /\ HashIdle /\ WorkIdle
SpecLate == InitLate /\ [][LateNext]_vars

\* the UDP probes alone, each of them scheduled again and again
InitUdpProbe == InitProbe /\ proto = "udp"
UdpProbeNext ==
    \/ StartHealthChecks
    \/ \E k \in Probed : Flap(k)
    \/ \E k \in Probed, o \in {"resolveerr", "dialerr", "ok"} : ProbeResolve(k, o)
    \/ \E k \in Probed, ok \in BOOLEAN : ProbeWrite(k, ok)
    \/ \E k \in Probed, r \in {"timeout", "pong", "other"} : ProbeRead(k, r)
    \/ \E k \in Probed : ProbeSleepEnd(k)
    \/ ShutdownCall(Stopper)
    \/ ShutdownSelect(Stopper)
    \/ ShutdownClose(Stopper)
SpecUdpProbe ==
    /\ InitUdpProbe
    /\ [][UdpProbeNext]_vars
    /\ \A k \in 0..(MaxProbed - 1) :
          /\ WF_vars(\E o \in {"resolveerr", "dialerr", "ok"} : ProbeResolve(k, o))
          /\ WF_vars(\E ok \in BOOLEAN : ProbeWrite(k, ok))
          /\ WF_vars(\E r \in {"timeout", "pong", "other"} : ProbeRead(k, r))
          /\ WF_vars(ProbeSleepEnd(k))

InitEngine == EngInit /\ HashIdle /\ PoolIdle /\ WorkIdle /\ ProbeIdle
SpecEngine == InitEngine /\ [][EngNext]_vars

\* Accept / ReadFromUDP on a closed listener returns its error
AcceptUnblocked == LoopAccept(FALSE) /\ listener = "closed"

\* the engine with its goroutines scheduled: the loop's own steps, and the
\* steps of a Shutdown call up to its wait.  When connections arrive, workers
\* end and deadlines elapse is not up to the engine.
SpecEngineFair ==
    /\ InitEngine
    /\ [][EngNext]_vars
    /\ WF_vars(LoopSelect) /\ WF_vars(LoopError) /\ WF_vars(LoopSpawn)
    /\ WF_vars(AcceptUnblocked)
    /\ \A s \in SCallers :
          /\ WF_vars(ShutdownSelect(s))
          /\ WF_vars(ShutdownClose(s))
          /\ WF_vars(ShutdownCloseListener(s))


(***************************************************************************)
(* Selection: round robin, sticky hashing, failover.  Checked under Spec.  *)
(* log holds the calls that ran one after the other while no health flag   *)
(* changed, so the flags in the state are the flags those calls read.      *)
(***************************************************************************)
AllHealthy == \A k \in 1..N : backends[k].isHealthy
NoneHealthy == \A k \in 1..N : ~backends[k].isHealthy
SameIP(a, b) == a.fam = b.fam /\ a.ip = b.ip

\* C1: round-robin fairness.  Sticky disabled, N >= 1 backends all healthy,
\* cursor 0 before the first call: the i-th of N consecutive Next calls
\* (i = 0..N-1) returns backends[(i+1) mod N].
C1_RoundRobinFairness ==
    (phase = "serve" /\ ~stickySessions /\ N >= 1 /\ AllHealthy /\ logCur = 0)
        => \A i \in 1..Len(log) : i <= N => log[i].ret = i % N

C1_Witness ==
    /\ phase = "serve" /\ ~stickySessions /\ N >= 3 /\ AllHealthy /\ logCur = 0
    /\ Len(log) = N
    /\ {log[i].ret : i \in 1..N} = 0..(N - 1)

\* C2: selection result.  On a non-empty pool whose flags do not change during
\* the call, Next (either mode) returns a backend whose flag is true whenever
\* one exists, returns nil exactly when every backend is unhealthy, and does
\* not fail.
C2_SelectionResult ==
    (phase = "serve" /\ N >= 1)
        => /\ ~Crashed
           /\ \A i \in 1..Len(log) :
                /\ log[i].ret # NoBackend
                      => log[i].ret \in 0..(N - 1) /\ backends[log[i].ret + 1].isHealthy
                /\ log[i].ret = NoBackend <=> NoneHealthy

C2_Witness ==
    /\ phase = "serve" /\ stickySessions /\ N = 3
    /\ Cardinality({k \in 1..N : backends[k].isHealthy}) = 1
    /\ Len(log) >= 1
    /\ log[1].ret # NoBackend
    /\ log[1].ret # HashMod(hashIp(getIpFromAddr(log[1].src)), N)

\* C3: empty pool.  Next on a pool with zero backends returns nil without
\* failing, in round-robin mode and in sticky mode, for every source address.
C3_EmptyPoolNone ==
    (phase = "serve" /\ N = 0)
        => /\ ~Crashed
           /\ \A i \in 1..Len(log) : log[i].ret = NoBackend

\* C4: sticky affinity.  In sticky mode two Next calls with the same source IP
\* (ports may differ), with no health flag changing between or during them,
\* return the same backend, whatever calls for other IPs come in between.
C4_StickyAffinity ==
    (phase = "serve" /\ stickySessions)
        => \A i, j \in 1..Len(log) :
              SameIP(log[i].src, log[j].src) => log[i].ret = log[j].ret

C4_Witness ==
    /\ phase = "serve" /\ stickySessions /\ N >= 2
    /\ Len(log) = 3
    /\ SameIP(log[1].src, log[3].src) /\ log[1].src.port # log[3].src.port
    /\ ~SameIP(log[1].src, log[2].src)
    /\ log[1].ret # NoBackend /\ log[2].ret # NoBackend /\ log[1].ret # log[2].ret

\* the sticky candidate index of an address, and the backend the sticky rule
\* names for it: the candidate if healthy, else the first healthy backend
\* among candidate+1, ..., candidate+N-1 (mod N), else nil
Candidate(a) == HashMod(hashIp(getIpFromAddr(a)), N)
StickyChoice(a) ==
    LET c == Candidate(a)
        ds == {d \in 1..(N - 1) : backends[((c + d) % N) + 1].isHealthy}
    IN  IF backends[c + 1].isHealthy THEN c
        ELSE IF ds = {} THEN NoBackend
        ELSE (c + (CHOOSE d \in ds : \A e \in ds : d <= e)) % N

\* C5: sticky failover.  In sticky mode Next returns the backend the sticky
\* rule names; with 192.168.1.100 (candidate 0 of 3), backends 0 and 1
\* unhealthy and backend 2 healthy, every call returns backends[2].
C5_StickyFailover ==
    (phase = "serve" /\ stickySessions /\ N >= 1)
        => \A i \in 1..Len(log) :
              /\ log[i].ret = StickyChoice(log[i].src)
              /\ ( /\ N = 3
                   /\ log[i].src.ip = <<192, 168, 1, 100>>
                   /\ ~backends[1].isHealthy /\ ~backends[2].isHealthy
                   /\ backends[3].isHealthy )
                     => Candidate(log[i].src) = 0 /\ log[i].ret = 2

C5_Witness ==
    /\ phase = "serve" /\ stickySessions /\ N = 3
    /\ ~backends[1].isHealthy /\ ~backends[2].isHealthy /\ backends[3].isHealthy
    /\ Len(log) = 3
    /\ \A i \in 1..3 : log[i].src.ip = <<192, 168, 1, 100>> /\ log[i].ret = 2

(***************************************************************************)
(* The hash.  Checked under SpecHash.                                      *)
(***************************************************************************)
\* C6: hash determinism.  hashIp is 32-bit FNV-1a over the bytes of the parsed
\* IP; for 192.168.1.100 it is 354263838, which is 0 modulo 3.
C6_HashDeterminism ==
    hPc = "done"
        => /\ hSum = hashIp(hIp)
           /\ (hAddr.fam = "v4" /\ hAddr.ip = <<192, 168, 1, 100>>)
                 => /\ Len(hIp) = 16
                    /\ HashFits(hSum)
                    /\ HashInt(hSum) = 354263838
                    /\ HashMod(hSum, 3) = 0

C6_Witness ==
    /\ hPc = "done"
    /\ hAddr = V4(192, 168, 1, 100, 5678)
    /\ hPos = 16


(***************************************************************************)
(* Shutdown.  Checked under SpecEngine.  order lists the Shutdown calls in *)
(* the order they were made; while overlap is false they ran in sequence.  *)
(***************************************************************************)
LoopStopped == loopPc \in {"off", "done"}
First == order[1]
Second == order[2]

\* C7 as stated: two Shutdown calls in sequence both return success without a
\* panic, and after either call the loop hands nothing more to a worker.
C7_BothCallsSucceed ==
    ~overlap
        => /\ ~Panicked
           /\ \A s \in SCallers : Returned(s) => sret[s] = "ok"
           /\ handedAfter = {}

\* C7, amended: two Shutdown calls in sequence never panic; the second is a
\* no-op returning success; the first returns success, or a timeout failure
\* when its deadline elapses before the loop has ended; and once the first has
\* returned success the loop hands nothing more to a worker.
C7_IdempotentShutdown ==
    ~overlap
        => /\ ~Panicked
           /\ (Len(order) >= 1 /\ Returned(First))
                 => /\ sret[First] \in {"ok", "timeout"}
                    /\ sret[First] = "timeout" => ctxDone[First]
                    /\ sret[First] = "ok" => LoopStopped /\ handedAfter = {}
           /\ (Len(order) = 2 /\ Returned(Second))
                 => /\ sret[Second] = "ok"
                    /\ Second \notin fired
                    /\ closes <= 1

C7_Witness ==
    /\ ~overlap /\ started /\ Len(order) = 2
    /\ Returned(First) /\ Returned(Second)
    /\ sret[First] = "ok" /\ sret[Second] = "ok"
    /\ fired = {First}
    /\ loopPc = "done"
    /\ workers.spawned # {}

\* C8: concurrent Shutdown calls.  Under every interleaving no call panics,
\* neither the signal nor the listener is closed twice, exactly one caller
\* fires the signal and every other caller short-circuits to success.
C8_ConcurrentShutdown ==
    /\ ~Panicked
    /\ Cardinality(fired) <= 1
    /\ closes <= 1
    /\ \A s \in SCallers : (Returned(s) /\ s \notin fired) => sret[s] = "ok"

\* C9: every Shutdown call returns: a call that has been made has returned
\* success or a timeout failure, or can still take a step (its deadline is
\* one of them); it returns the timeout failure only once its deadline has
\* elapsed, and success by waiting only once the WaitGroup has drained.
C9_ShutdownReturns ==
    \A s \in SCallers :
        /\ \/ spc[s] = "idle"
           \/ Returned(s) /\ sret[s] \in {"ok", "timeout"}
           \/ ENABLED (ShutdownStep(s) \/ DeadlineElapses(s))
        /\ (Returned(s) /\ sret[s] = "timeout") => ctxDone[s]
        /\ (Returned(s) /\ sret[s] = "ok" /\ s \in fired) => wg = 0

\* C10: when the Shutdown call that fired the signal returns success, every
\* worker the engine spawned has finished: the accept/receive loop and every
\* relay or datagram handler.
C10_WaitsForAllWorkers ==
    \A s \in fired :
        (Returned(s) /\ sret[s] = "ok") => LoopStopped /\ workers.running = {}


(***************************************************************************)
(* Relays and datagram handlers.  Checked under SpecWork.                  *)
(***************************************************************************)
\* the address a backend is configured with, and the handlers that have read
\* a reply from their backend
ConfiguredAddr(k) == ResolveUDPAddr(backends[k + 1].url)
ReadAReply(h) == proto = "udp" /\ wk[h].got # None
Accepted(h) == wk[h].pc = "send" \/ wk[h].res \in {"ok", "clienterr"}

\* C11: UDP echo round trip.  When the backend answers the datagram with the
\* same payload from its configured host:port, forwardToBackend returns that
\* payload unchanged and without error, whatever the payload's length.
C11_EchoRoundTrip ==
    \A h \in Handlers :
        (ReadAReply(h) /\ wk[h].got = wk[h].data /\ wk[h].from = ConfiguredAddr(wk[h].sel))
            => /\ Accepted(h)
               /\ wk[h].pc = "send" => wk[h].resp = wk[h].data
               /\ wk[h].res = "ok" => wk[h].out = wk[h].data

\* C12: UDP cross-talk rejection.  A reply is rejected (forwardToBackend
\* returns an error and nothing is written to the client) exactly when its
\* sender differs from the selected backend's configured host:port; a reply
\* from the configured host:port is accepted.
C12_CrossTalkRejection ==
    \A h \in Handlers :
        ReadAReply(h)
            => /\ wk[h].res = "crosstalk" <=> wk[h].from # ConfiguredAddr(wk[h].sel)
               /\ wk[h].from = ConfiguredAddr(wk[h].sel) => Accepted(h)
               /\ wk[h].res = "crosstalk" => wk[h].out = None

\* C13: no backend available.  When Next returns nil the relay closes the
\* client connection without dialing and without sending a byte, the datagram
\* handler ends without an outbound socket and without writing to the client,
\* and the engine goes on: the next connection or datagram can be handed over.
C13_NoBackendAvailable ==
    \A h \in Handlers :
        /\ (wk[h].pc = "done" /\ wk[h].res = "none")
              => /\ wk[h].sel = NoBackend
                 /\ wk[h].sock = "none"
                 /\ wk[h].got = None /\ wk[h].out = None
                 /\ proto = "tcp" => wk[h].client = "closed"
                 /\ loopPc = "select" /\ listener = "open"
                 /\ ENABLED (\E a \in WorkAddrs, d \in Payloads : Handle(h, a, d))
        /\ (wk[h].sel = NoBackend /\ wk[h].pc \notin {"idle", "next"}
                /\ ~(stickySessions /\ N = 0))
              => wk[h].pc = "done" /\ wk[h].res = "none"

C13_Witness ==
    \E h \in Handlers :
        /\ wk[h].pc = "done" /\ wk[h].res = "none"
        /\ N >= 2 /\ NoneHealthy
        /\ proto = "tcp" /\ wk[h].client = "closed"

(***************************************************************************)
(* The bound socket.  Checked under SpecEngine.                            *)
(***************************************************************************)
\* C18: UDP bind address.  Once Start of the UDP engine has bound the
\* datagram socket, the socket is bound on the port of Config.Addr, whichever
\* port is configured.
C18_BindsConfiguredPort ==
    (proto = "udp" /\ listener = "open") => bound = addr

(***************************************************************************)
(* The health checkers.  C14 is checked under SpecTcpProbe, C15 and C16    *)
(* under SpecProbe.                                                        *)
(***************************************************************************)
\* the result of a Next call made in the current state by client a
NextResult(a) == IF stickySessions THEN stickyPick(a) ELSE rrScan(current, 0).ret

ProbeSlots == 0..(MaxProbed - 1)
Signalled == shutdown = "closed"

\* C14: TCP health state machine.  After each TCP probe of a backend has
\* completed, the backend's flag equals the outcome of that probe's dial;
\* while no shutdown is signalled every started probe comes back to its dial
\* again and again, so a backend that stays down is eventually marked
\* unhealthy and a backend that stays up is eventually marked healthy.
C14_HealthStateMachine ==
    /\ [](\A k \in ProbeSlots :
            (k < N /\ hcPc[k] \in {"wait", "stopped"})
                => Healthy(k) = (cycle[k] = "ok"))
    /\ \A k \in ProbeSlots :
          /\ []<>(k < N => (Signalled \/ hcPc[k] \in {"off", "probe"}))
          /\ []<>(k < N => (Signalled \/ hcPc[k] = "off" \/ reach[k] \/ ~Healthy(k)))
          /\ []<>(k < N => (Signalled \/ hcPc[k] = "off" \/ ~reach[k] \/ Healthy(k)))

\* the only backend was found up by one probe and down by a later one
C14_Witness ==
    /\ proto = "tcp" /\ ~Signalled
    /\ N = 1
    /\ hcPc[0] = "wait" /\ cycle[0] = "fail"
    /\ ~Healthy(0)
    /\ succeeded

\* C15: UDP liveness requires the full ping/pong.  A UDP probe makes a
\* backend's flag true only in the step that has received, within the probe
\* cycle, a "pong" from the backend's configured host:port after a successful
\* ping write: the flag never rises before the reply is received and checked.
C15_FullPingPong ==
    [][\A k \in ProbeSlots :
          (proto = "udp" /\ k < N /\ ~Healthy(k) /\ backends'[k + 1].isHealthy)
              => cycle'[k] = "pong"]_vars

\* C16: initial health state.  Backends start with the flag false, and while
\* no probe has succeeded a Next call returns 'none available', whoever the
\* client is.
C16_InitialHealthState ==
    /\ (\A k \in DOMAIN hcPc : hcPc[k] = "off") => NoneHealthy
    /\ (N >= 1 /\ ~succeeded) => \A a \in WorkAddrs : NextResult(a) = NoBackend

(***************************************************************************)
(* Growing the pool.  Checked under SpecGrow.                              *)
(***************************************************************************)
\* the step is a call of AddBackend: it consumes the next URL
AddsBackend == config # <<>> /\ config' = Tail(config)

\* C17: AddBackend.  A call with a parseable URL appends exactly one backend,
\* unhealthy, at the end; a call with an unparseable URL changes nothing; in
\* both cases the backends already there keep their order and flags, the
\* cursor keeps its value, and the remaining URLs are still to be added.  The
\* backends are therefore in the order of their URLs.
C17_AddBackend ==
    /\ [][AddsBackend =>
            /\ current' = current
            /\ SubSeq(backends', 1, N) = backends
            /\ Len(backends') = N + (IF Head(config).parses THEN 1 ELSE 0)
            /\ Head(config).parses =>
                  backends'[N + 1] = [url |-> Head(config).host, isHealthy |-> FALSE]]_vars
    /\ []((config # <<>> /\ backendsMutex = NoOne) => ENABLED AddBackend)
    /\ [](\A i, j \in 1..MaxBackends :
             (i < j /\ j <= N) => backends[i].url < backends[j].url)

\* every URL has been handled, one of them skipped, on a pool whose first
\* backend is healthy and whose cursor has moved
C17_Witness ==
    /\ config = <<>>
    /\ N >= 2
    /\ backends[N].url > N
    /\ ~backends[N].isHealthy
    /\ backends[1].isHealthy
    /\ current >= 1

(***************************************************************************)
(* The round-robin cursor.  Checked under Spec.  Each recorded call carries *)
(* the value it left in the cursor; the call before the first recorded one  *)
(* left logCur.                                                             *)
(***************************************************************************)
HealthySet == {k \in 0..(N - 1) : Healthy(k)}
\* the cursor when the j-th recorded call started
Before(j) == IF j = 1 THEN logCur ELSE log[j - 1].cur
\* the first healthy index in cyclic order after cur
FirstHealthyAfter(cur) ==
    LET d == CHOOSE d \in 1..N :
                /\ (cur + d) % N \in HealthySet
                /\ \A e \in 1..(d - 1) : (cur + e) % N \notin HealthySet
    IN  (cur + d) % N
RoundRobin == phase = "serve" /\ ~stickySessions

\* C19: round-robin failover cycle.  With a fixed non-empty healthy set H each
\* call returns the first member of H in cyclic index order after the cursor,
\* so any |H| consecutive calls return each member of H once and no unhealthy
\* backend.
C19_FailoverCycle ==
    (RoundRobin /\ HealthySet # {})
        => /\ \A j \in 1..Len(log) : log[j].ret = FirstHealthyAfter(Before(j))
           /\ \A s \in 1..Len(log) :
                 s + Cardinality(HealthySet) - 1 <= Len(log)
                    => { log[j].ret : j \in s..(s + Cardinality(HealthySet) - 1) }
                          = HealthySet

\* backend 0 down, backends 1 and 2 up: three calls return 1, 2, 1
C19_Witness ==
    /\ RoundRobin /\ N = 3
    /\ HealthySet = {1, 2}
    /\ Len(log) = 3
    /\ logCur = 0
    /\ <<log[1].ret, log[2].ret, log[3].ret>> = <<1, 2, 1>>

\* C20 as stated: every round-robin call on N >= 2 backends leaves the cursor
\* at a value different from the one it found, also when it returns 'none
\* available', and a call that returns backends[i] leaves the cursor at i.
C20_CursorAlwaysMoves ==
    (RoundRobin /\ N >= 2)
        => \A j \in 1..Len(log) :
              /\ log[j].cur # Before(j)
              /\ log[j].ret # NoBackend => log[j].cur = log[j].ret

\* C20, amended: a call that returns backends[i] leaves the cursor at i, so the
\* next call starts scanning at i+1; the cursor differs from the value the
\* call found unless the backend at that value is the only healthy one; a call
\* that returns 'none available' has advanced the cursor N times and leaves
\* it at the value it found.
C20_CursorAdvancement ==
    (RoundRobin /\ N >= 2)
        => /\ \A j \in 1..Len(log) :
                /\ log[j].ret # NoBackend => log[j].cur = log[j].ret
                /\ log[j].ret = NoBackend => log[j].cur = Before(j)
                /\ log[j].cur = Before(j) => HealthySet \subseteq {Before(j)}
           /\ (backendsMutex = NoOne /\ Len(log) >= 1) => current = log[Len(log)].cur

\* no backend is healthy and the cursor is not 0: two calls in a row return
\* 'none available' and each leaves the cursor where it found it
C20_Witness ==
    /\ RoundRobin /\ N = 3
    /\ HealthySet = {}
    /\ logCur # 0
    /\ Len(log) >= 2
    /\ log[1].ret = NoBackend /\ log[1].cur = logCur
    /\ log[2].ret = NoBackend /\ log[2].cur = logCur
    /\ backendsMutex = NoOne /\ current = logCur

(***************************************************************************)
(* Sticky mode and the cursor.  Checked under SpecGrow, where the cursor   *)
(* and the flags start anywhere.                                           *)
(***************************************************************************)
\* the step belongs to a Next call: a caller's position moves
CallStep == pc' # pc \/ iter' # iter

\* C21: sticky mode leaves the cursor alone.  No step of a Next call in sticky
\* mode changes the cursor, the backend sequence or a health flag, whatever
\* the call returns; each recorded call leaves the cursor as it found it.
C21_StickyLeavesCursor ==
    /\ [][(stickySessions /\ CallStep)
            => current' = current /\ backends' = backends]_vars
    /\ [](stickySessions
            => \A j \in 1..MaxCalls : j <= Len(log) => log[j].cur = Before(j))

\* the cursor is at 1; one recorded sticky call failed over to another
\* backend than the hashed one
C21_Witness ==
    /\ stickySessions /\ N = 3
    /\ current = 1 /\ backendsMutex = NoOne
    /\ Len(log) >= 2
    /\ log[1].ret # NoBackend
    /\ log[1].ret # HashMod(hashIp(getIpFromAddr(log[1].src)), N)
    /\ log[2].cur = 1

(***************************************************************************)
(* Index bounds.  The reduction of the hash is checked under SpecHash, on  *)
(* builds of both int widths.                                              *)
(***************************************************************************)
InRange(i, n) == i \in 0..(n - 1)
\* the ends of the uint32 range and of its two halves
HashSamples == { <<0, 0>>, <<0, 1>>, <<32767, 65535>>, <<32768, 0>>,
                 <<32768, 1>>, <<65535, 65534>>, <<65535, 65535>> }

\* C22: index bounds.  On a non-empty pool of length N the cursor is in
\* 0..N-1, and every index Next reads the sequence with is in 0..N-1: the
\* round-robin index (the cursor), the sticky candidate hash % N for every
\* 32-bit hash, and each failover probe index.
C22_IndexBounds ==
    /\ N >= 1 =>
          /\ InRange(current, N)
          /\ \A c \in Callers :
                /\ pc[c] \in {"sticky", "find"} => InRange(idx[c], N)
                /\ (pc[c] = "find" /\ iter[c] < N)
                      => InRange(ProbeIndex(idx[c], iter[c]), N)
    /\ hPc # "panic"
    /\ hN >= 1 => InRange(hIdx, hN)

\* where int is 64 bits wide the bounds hold, for the hashes of the clients
\* and for the ends of the uint32 range
IndexBoundsOn64 ==
    intBits = 64
        => /\ C22_IndexBounds
           /\ \A h \in HashSamples, n \in 1..MaxBackends :
                 InRange(stickyIndex(intBits, h, n), n)

(***************************************************************************)
(* The pool lock.  Checked under Spec, with two callers.                   *)
(***************************************************************************)
\* the caller is between Lock and the deferred Unlock
Inside(c) == pc[c] \in {"rr", "sticky", "find"}

\* C23: serialized selection.  At most one Next call is between Lock and
\* Unlock, and it is the holder of the lock; when no call is inside, the
\* cursor is where the last recorded call left it; with N backends, all
\* healthy, any N consecutive round-robin calls return N distinct backends.
C23_SerializedSelection ==
    /\ \A c \in Callers : Inside(c) => backendsMutex = c
    /\ (RoundRobin /\ backendsMutex = NoOne /\ Len(log) >= 1)
          => current = log[Len(log)].cur
    /\ (RoundRobin /\ N >= 1 /\ AllHealthy)
          => \A s \in 1..Len(log) :
                s + N - 1 <= Len(log)
                   => Cardinality({ log[j].ret : j \in s..(s + N - 1) }) = N

\* two callers at once: one inside, the other waiting for the lock
C23_Witness ==
    /\ RoundRobin /\ N = 3 /\ AllHealthy
    /\ Len(log) >= 1
    /\ Inside("c1") /\ pc["c2"] = "lock"
    /\ current = log[Len(log)].cur

(***************************************************************************)
(* The TCP relay.  C24 is checked under SpecRelay, C25 under SpecWork.     *)
(***************************************************************************)
BothClosed(h) == wk[h].sock = "closed" /\ wk[h].client = "closed"
Relaying(h) == proto = "tcp" /\ wk[h].pc = "relay"

\* C24: TCP relay teardown.  When the backend-to-client copy of a connected
\* relay terminates, and also when the client-to-backend copy terminates
\* first, the client connection and the backend connection are closed and
\* the relay ends.
C24_RelayTeardown ==
    \A h \in Handlers :
        /\ []((proto = "tcp" /\ wk[h].pc = "done" /\ wk[h].res = "ok") => BothClosed(h))
        /\ (Relaying(h) /\ wk[h].up = "done") ~> BothClosed(h)

\* C25: one selection per TCP connection.  A connection handed to proxy makes
\* exactly one Next call, before the dial; the relay is connected to the
\* backend that call returned and stays so, open, whatever happens to the
\* backend's health flag.
C25_OneSelection ==
    /\ [](\A h \in Handlers :
            proto = "tcp"
               => /\ wk[h].pc = "next" => wk[h].calls = 0
                  /\ wk[h].pc \in {"dial", "relay", "done"} => wk[h].calls = 1
                  /\ wk[h].pc = "relay"
                        => /\ wk[h].peer = wk[h].sel
                           /\ wk[h].sock = "open" /\ wk[h].client = "open")
    /\ [][\A h \in Handlers :
            (Relaying(h) /\ wk'[h].pc = "relay")
               => /\ wk'[h].sel = wk[h].sel /\ wk'[h].peer = wk[h].peer
                  /\ wk'[h].sock = wk[h].sock /\ wk'[h].client = wk[h].client
                  /\ wk'[h].calls = wk[h].calls]_vars

\* a relay to backend 1 goes on after the backend's flag has become false
C25_Witness ==
    \E h \in Handlers :
        /\ Relaying(h)
        /\ wk[h].sel = 1 /\ wk[h].peer = 1
        /\ ~Healthy(1)
        /\ wk[h].sock = "open" /\ wk[h].client = "open"
        /\ wk[h].calls = 1

(***************************************************************************)
(* The accept / receive loop.  Checked under SpecEngine.                   *)
(***************************************************************************)
LoopEnded == loopPc = "done"
\* a worker has ended in this step
WorkerEnds == workers'.running # workers.running /\ workers'.spawned = workers.spawned

\* C26: accept-loop error policy.  The loop has ended only if the shutdown
\* signal is raised; after an Accept / ReadFrom error with the signal not
\* raised the loop is back at its select and can accept again; the end of a
\* worker, failed or not, does not move the loop.
C26_LoopErrorPolicy ==
    /\ [](LoopEnded => shutdown = "closed")
    /\ [][(loopPc = "goterr" /\ loopPc' # "goterr")
            => loopPc' = IF shutdown = "closed" THEN "done" ELSE "select"]_vars
    /\ [][WorkerEnds => loopPc' = loopPc]_vars

\* the loop has seen an error with the signal not raised, after it handed a
\* connection to a worker that has ended since
C26_Witness ==
    /\ loopPc = "goterr" /\ shutdown = "open" /\ listener = "open"
    /\ workers.spawned # {}
    /\ workers.running = {}

LoopRunning == loopPc \in {"select", "accept", "gotconn", "goterr"}

\* C27: shutdown ordering.  The listener is closed by Shutdown only with the
\* signal already raised, so the loop that finds an error on the closed
\* listener returns instead of logging it; and once Shutdown is called on an
\* engine whose loop runs, the loop ends, also when it is blocked in Accept /
\* ReadFrom (unless the process has crashed).  Checked under SpecEngineFair.
C27_ShutdownOrdering ==
    /\ [](listener = "closed" => shutdown = "closed")
    /\ [][(loopPc = "goterr" /\ listener = "closed" /\ loopPc' # "goterr")
            => loopPc' = "done"]_vars
    /\ \A s \in SCallers :
          (spc[s] # "idle" /\ LoopRunning) ~> (LoopEnded \/ Panicked)

\* the loop has the error that the close of the listener produced
C27_Witness ==
    /\ loopPc = "goterr"
    /\ listener = "closed" /\ shutdown = "closed"
    /\ ~Panicked

(***************************************************************************)
(* The probes and the shutdown signal.  C28 is checked under SpecTcpProbe, *)
(* C29 and C30 under the UDP probes.                                       *)
(***************************************************************************)
\* the probe of backend k has made its dial and is at, or past, its select
PastDial(k) == hcPc[k] \in {"wait", "stopped"}

\* C28: TCP probe cancellation.  Once the shutdown signal is raised every
\* started TCP probe ends; a probe that is in its wait when the signal is up
\* does not go back to its dial; and a probe that is past its dial with the
\* signal up writes no flag any more, so that after the signal a backend's flag
\* is written at most by the one dial that was on its way.
C28_TcpProbeCancellation ==
    /\ \A k \in ProbeSlots :
          (Signalled /\ k < N /\ hcPc[k] # "off") ~> (k < N /\ hcPc[k] = "stopped")
    /\ [][\A k \in ProbeSlots :
            (Signalled /\ k < N /\ PastDial(k))
                => /\ PastDial(k)'
                   /\ backends'[k + 1].isHealthy = Healthy(k)]_vars

\* the signal is up, one probe has ended from its wait while the dial of the
\* other, on its way when the signal was raised, has yet to write its flag
C28_Witness ==
    /\ proto = "tcp" /\ Signalled
    /\ N = 2
    /\ hcPc[0] = "stopped"
    /\ hcPc[1] = "probe"
    /\ reach[1] # Healthy(1)

\* the probe of backend k has ended its cycle and is at, or past, its sleep
PastCycle(k) == hcPc[k] \in {"sleep", "stopped"}

\* C29: UDP probe cancellation.  Once the shutdown signal is raised every
\* started UDP probe ends, and a probe that has ended its cycle with the signal
\* up does not begin another: no further ping is sent to its backend.
C29_UdpProbeCancellation ==
    /\ \A k \in ProbeSlots :
          (Signalled /\ k < N /\ hcPc[k] # "off") ~> (k < N /\ hcPc[k] = "stopped")
    /\ [][\A k \in ProbeSlots :
            (Signalled /\ k < N /\ PastCycle(k)) => PastCycle(k)']_vars

\* the cycle of backend k holds the socket DialUDP opened, not yet closed
SocketOpen(k) == cycle[k] \in {"conn", "wrote", "writeerr"}

\* in the cycle of backend k the ping was written, a reply came within the
\* deadline, from the backend, and its payload is "pong"
AllFourHeld(k) == cycle[k] \in {"pong", "unmatched"}

\* C30: UDP probe verdict.  When a UDP probe cycle has ended and the probe is
\* in its wait, the backend's flag is true exactly when the ping was written
\* and a "pong" of the backend's configured host:port arrived in time, in that
\* cycle; and the socket the cycle opened is closed.
C30_UdpProbeVerdict ==
    \A k \in ProbeSlots :
        (proto = "udp" /\ k < N /\ hcPc[k] = "sleep")
            => /\ Healthy(k) <=> AllFourHeld(k)
               /\ ~SocketOpen(k)

\* the verdict on the pools whose backends are configured by IP literal
VerdictOnLiterals ==
    (\A k \in Probed : backends[k + 1].url.kind = "ip") => C30_UdpProbeVerdict

(***************************************************************************)
(* The probes of different backends.  Checked under SpecProbe.             *)
(***************************************************************************)
\* the step is one of the probe of backend k, already started
ProbeStepOf(k) == k < N /\ hcPc[k] # "off" /\ hcPc'[k] # hcPc[k]

\* the next operation of the probe of backend k can be made now
ProbeCanStep(k) ==
    \/ ENABLED ProbeDial(k)
    \/ ENABLED (\E o \in {"resolveerr", "dialerr", "ok"} : ProbeResolve(k, o))

WroteBackend(h) == wk[h].sent # "none"

\* C32: UDP payload integrity under concurrency.  The payload a handler has
\* written to the backend is the payload of its own datagram as received,
\* whatever the receive loop received in the meantime.
C32_PayloadIntegrity ==
    \A h \in Handlers : WroteBackend(h) => wk[h].sent = "own"

\* the step goes on with the run of handler h: it does not start a new one
SameRun(h) == wk[h].pc \notin {"idle", "done"} /\ wk'[h].pc # "next"

\* C33: UDP single round trip.  A datagram handler makes exactly one Next
\* call; it writes at most once, to the backend that call returned, and never
\* again or elsewhere; its outbound socket is open only for the read of that
\* round trip and closed when the handler ends; it writes at most one reply,
\* to the address its datagram came from, and only after it has read a reply
\* that forwardToBackend accepted.
C33_SingleRoundTrip ==
    /\ [](\A h \in Handlers :
            proto = "udp"
               => /\ wk[h].pc = "next" => wk[h].calls = 0
                  /\ wk[h].pc \notin {"idle", "next"} => wk[h].calls = 1
                  /\ WroteBackend(h) => wk[h].sel # NoBackend /\ wk[h].peer = wk[h].sel
                  /\ wk[h].sock = "open" => wk[h].pc = "read"
                  /\ wk[h].out # None
                        => /\ wk[h].res = "ok" /\ WroteBackend(h)
                           /\ wk[h].got # None /\ wk[h].sock = "closed")
    /\ [][\A h \in Handlers :
            (proto = "udp" /\ SameRun(h))
               => /\ wk'[h].calls = wk[h].calls \/ wk[h].pc = "next"
                  /\ WroteBackend(h)
                        => wk'[h].sent = wk[h].sent /\ wk'[h].peer = wk[h].peer
                  /\ wk'[h].out # None
                        => wk[h].pc = "send" /\ wk'[h].to = wk[h].src]_vars

\* a datagram of the second client has made its round trip and been answered
C33_Witness ==
    \E h \in Handlers :
        /\ proto = "udp"
        /\ wk[h].pc = "done" /\ wk[h].res = "ok"
        /\ wk[h].calls = 1 /\ wk[h].peer = wk[h].sel
        /\ wk[h].sock = "closed"
        /\ wk[h].out # None
        /\ wk[h].to = V4(10, 0, 0, 7, 5678)

\* handler h is in forwardToBackend or about to answer the client
InRoundTrip(h) == proto = "udp" /\ wk[h].pc \in {"dial", "read", "send"}

\* C34: UDP handler termination.  A datagram handler that has selected a
\* backend ends, whether the backend replies or not.
C34_HandlerTermination ==
    \A h \in Handlers : InRoundTrip(h) ~> (wk[h].pc = "done" \/ WorkCrashed)

(***************************************************************************)
(* Handlers at shutdown.  Checked under SpecDrain.                         *)
(***************************************************************************)
\* the step is one of a Shutdown call
ShutdownActs == spc' # spc \/ shutdown' # shutdown \/ listener' # listener

\* C35: in-flight work survives the shutdown signal.  No step of Shutdown
\* changes the state of a handler; a TCP relay in flight keeps both its
\* connections open; and a UDP handler that holds the accepted reply of its
\* backend can still write it to the client.
C35_InFlightSurvives ==
    /\ [][ShutdownActs => wk' = wk]_vars
    /\ [](\A h \in Handlers :
            /\ Relaying(h) => wk[h].sock = "open" /\ wk[h].client = "open"
            /\ (proto = "udp" /\ wk[h].pc = "send") => ENABLED WriteClient(h, TRUE))

(***************************************************************************)
(* The pool's lock and its readers.  Checked under SpecReaders.            *)
(***************************************************************************)
\* the step is the health checker's walk over p.backends, which starts one
\* probe per backend
RangesBackends == \E k \in DOMAIN hcPc : hcPc[k] = "off" /\ hcPc'[k] # "off"

\* C36: pool lock discipline.  A caller is inside Next's scan only as the
\* holder of the pool's lock, the cursor changes only in a step of the lock's
\* holder, and the health checker walks the sequence only while nobody else
\* holds the lock, as a reader that takes the lock does.
C36_LockDiscipline ==
    /\ [](\A c \in Callers : Inside(c) => backendsMutex = c)
    /\ [][current' # current => backendsMutex # NoOne]_vars
    /\ [][RangesBackends => backendsMutex = NoOne]_vars

(***************************************************************************)
(* What a successful Shutdown tells.  Checked under SpecEngine.            *)
(***************************************************************************)
\* C37 as stated: whenever a Shutdown call has returned success on a started
\* engine, the accept / receive loop has terminated, whichever call it is.
C37_SuccessMeansStopped ==
    \A s \in SCallers : (Returned(s) /\ sret[s] = "ok") => LoopStopped

\* C37, amended: when the Shutdown call that fired the signal has returned
\* success, the loop has terminated; a call that found the signal fired took
\* no part in closing or waiting, and its success tells nothing of the loop.
C37_FiringCallStopped ==
    /\ \A s \in fired : (Returned(s) /\ sret[s] = "ok") => LoopStopped
    /\ \A s \in SCallers :
          (Returned(s) /\ s \notin fired /\ ~overlap) => sret[s] = "ok" /\ closes <= 1

\* the firing call has waited for the loop and returned success, after which
\* a second call has returned success at once
C37_Witness ==
    /\ started /\ ~overlap /\ Len(order) = 2
    /\ First \in fired /\ Returned(First) /\ sret[First] = "ok" /\ ~ctxDone[First]
    /\ Returned(Second) /\ sret[Second] = "ok" /\ Second \notin fired
    /\ loopPc = "done"

(***************************************************************************)
(* Selection while flags change.  Checked under Spec: the scan of Next     *)
(* reads one flag per step and SetHealthy steps come in between.           *)
(***************************************************************************)
\* the step is the return of caller c's Next with nil: a scan has run out
ReturnsNone(c) == pc[c] \in {"rr", "find"} /\ iter[c] >= N /\ pc'[c] = "idle"
\* the step is the return of caller c's Next with a backend
ReturnsBackend(c) == Inside(c) /\ pc'[c] = "idle" /\ ~ReturnsNone(c)
\* the flag caller c's step reads
ReadsIndex(c) ==
    IF pc[c] = "rr" THEN Advance(current)
    ELSE IF pc[c] = "sticky" THEN idx[c]
    ELSE ProbeIndex(idx[c], iter[c])

\* C38: selection against concurrent health changes.  A Next call on a
\* non-empty pool returns nil only when at some instant of the call no
\* backend was healthy, and a backend it returns is one whose flag it read
\* true in the step that returns.
C38_SelectionUnderChange ==
    [][\A c \in Callers :
          /\ (N >= 1 /\ ReturnsNone(c)) => gap[c]
          /\ ReturnsBackend(c) => Healthy(ReadsIndex(c))]_vars

(***************************************************************************)
(* Backends added after the health checks were started.  Checked under     *)
(* SpecLate.                                                               *)
(***************************************************************************)
\* the backends AddBackend has added since the health checks were started
AddedLate == {k \in 0..(N - 1) : k \notin DOMAIN hcPc}

\* C39: the probe set is fixed at start.  Once the health checks are started
\* the set of probed backends does not change; a backend added afterwards has
\* no probe, its flag is false in every state, and no Next call, whoever the
\* client, returns it; Next returns a backend exactly when one of the probed
\* backends is healthy.
C39_ProbeSetFixed ==
    /\ [][HealthChecksStarted => DOMAIN hcPc' = DOMAIN hcPc]_vars
    /\ [](HealthChecksStarted
            => /\ \A k \in AddedLate : ~Healthy(k)
               /\ N >= 1 => \A a \in WorkAddrs :
                     /\ NextResult(a) \notin AddedLate
                     /\ NextResult(a) = NoBackend
                           <=> \A k \in DOMAIN hcPc : ~Healthy(k))

\* two backends were added after the start of the checks to a pool whose
\* one probed backend has since been found up
C39_Witness ==
    /\ HealthChecksStarted
    /\ config = <<>>
    /\ DOMAIN hcPc = {0} /\ N = 3
    /\ cycle[0] = "ok" /\ Healthy(0)
    /\ stickySessions

(***************************************************************************)
(* Who writes the health flags.  Checked under SpecWork, where SetHealthy  *)
(* is the probes' step.                                                    *)
(***************************************************************************)
\* the outcomes of a handler whose backend has failed it
TrafficFailures == {"dialerr", "resolveerr", "writeerr", "readerr", "crosstalk"}

\* C40: only probes write health.  No step of a relay or of a datagram
\* handler, its Next call and its failures included, changes a health flag;
\* so in the state after a handler's failure its backend has the flag it had
\* before, and is selectable if it was.
C40_OnlyProbesWrite ==
    [][\A h \in Handlers : wk'[h] # wk[h] => backends' = backends]_vars

\* the dial of backend 1 has failed and the backend is still marked healthy
C40_Witness ==
    \E h \in Handlers :
        /\ wk[h].pc = "done" /\ wk[h].res \in TrafficFailures
        /\ wk[h].res = "dialerr"
        /\ wk[h].sel = 1 /\ Healthy(1)
        /\ NextResult(V4(10, 0, 0, 7, 5678)) # NoBackend

====
